---- MODULE Spec2Model ----
(***************************************************************************)
(* A model of rakke: the object store and staging-area writer (add.rs),    *)
(* repository initialisation (init.rs), the loose-object parser            *)
(* (objects.rs) and the pack reader (pack.rs).                             *)
(*                                                                         *)
(* Byte strings are sequences of integers 0..255; text is its ASCII bytes. *)
(* 32-bit words are pairs <<hi, lo>> of 16-bit halves, so that every       *)
(* intermediate value stays inside the checker's integer range while the   *)
(* arithmetic is exactly arithmetic modulo 2^32.                           *)
(***************************************************************************)
EXTENDS Integers, Sequences, FiniteSets, TLC

VARIABLES
    fs,          \* the file system: path (sequence of components) -> node
    run,         \* add: "idle", or "adding" while an invocation is in its loop
    argq,        \* add: the path arguments the loop has not processed yet
    lastWrites,  \* object store round trip: the paths the last put wrote
    last,        \* the last command that finished: its arguments and outcome
    stagingMap,  \* serializer: the staging map M under test
    iterOrder,   \* serializer: the order in which the HashMap iterates M
    serialized,  \* serializer: the bytes serialize_index returned for M
    payload,     \* object store round trip: the payload under test
    putHash,     \* object store round trip: the hash create_blob_object returned
    loaded,      \* object store round trip: the object load_loose_object returned
    pack,        \* pack reader: the pack file bytes
    offsets,     \* pack reader: the hash -> offset map parsed from the index
    cursor,      \* pack reader: the cursor position
    processed,   \* pack reader: the processed counter
    objects,     \* pack reader: the objects emitted so far
    walk,        \* pack reader: "start" | "loop" | "done" | "error"
    callArg,     \* function call: the argument of the function under test
    callResult,  \* function call: what the function returned for it
    stagedBefore, \* add: the staging file as the last add invocation found it
    writers      \* concurrent put: where each writer is in create_blob_object

vars == <<fs, run, argq, lastWrites, last, stagingMap, iterOrder, serialized,
          payload, putHash, loaded, pack, offsets, cursor, processed, objects, walk,
          callArg, callResult, stagedBefore, writers>>

-----------------------------------------------------------------------------
(* Byte strings *)

Byte == 0..255
NUL == 0
Pow2(n) == 2^n
Min(a, b) == IF a < b THEN a ELSE b

\* The ASCII text used by the program.
S_blob == <<98, 108, 111, 98>>
S_commit == <<99, 111, 109, 109, 105, 116>>
S_tree == <<116, 114, 101, 101>>
S_tag == <<116, 97, 103>>
S_dot == <<46>>
S_git == <<46, 103, 105, 116>>
S_objects == <<111, 98, 106, 101, 99, 116, 115>>
S_refs == <<114, 101, 102, 115>>
S_heads == <<104, 101, 97, 100, 115>>
S_tags == <<116, 97, 103, 115>>
S_index == <<105, 110, 100, 101, 120>>
S_HEAD == <<72, 69, 65, 68>>
S_config == <<99, 111, 110, 102, 105, 103>>
S_description == <<100, 101, 115, 99, 114, 105, 112, 116, 105, 111, 110>>
S_DIRC == <<68, 73, 82, 67>>
S_PACK == <<80, 65, 67, 75>>
S_unknown_ == <<117, 110, 107, 110, 111, 119, 110, 95>>
Slash == 47
Space == 32
Plus == 43

\* The position of the first occurrence of byte b in s, or 0.
FirstIndex(s, b) ==
    IF \E i \in 1..Len(s) : s[i] = b
    THEN CHOOSE i \in 1..Len(s) : s[i] = b /\ \A j \in 1..(i - 1) : s[j] # b
    ELSE 0

StartsWith(s, p) == Len(s) >= Len(p) /\ SubSeq(s, 1, Len(p)) = p

\* Byte-lexicographic order on byte strings (Rust's Ord for str and [u8]).
ByteLess(s, t) ==
    \/ /\ Len(s) < Len(t)
       /\ SubSeq(t, 1, Len(s)) = s
    \/ \E i \in 1..Min(Len(s), Len(t)) :
          /\ s[i] < t[i]
          /\ \A j \in 1..(i - 1) : s[j] = t[j]

\* format!("{}", n) for an unsigned integer.
RECURSIVE ToDecimal(_)
ToDecimal(n) == IF n < 10 THEN <<48 + n>> ELSE Append(ToDecimal(n \div 10), 48 + (n % 10))

IsDigit(c) == c >= 48 /\ c <= 57
RECURSIVE DecimalValue(_)
DecimalValue(s) == IF s = <<>> THEN 0 ELSE DecimalValue(SubSeq(s, 1, Len(s) - 1)) * 10 + (s[Len(s)] - 48)

\* str::parse::<usize>: an optional '+', then one or more decimal digits.
\* (Strings long enough to overflow usize do not occur within the bounds.)
ParseUsize(s) ==
    LET digits == IF s # <<>> /\ s[1] = Plus THEN Tail(s) ELSE s
    IN IF digits # <<>> /\ Len(digits) <= 9 /\ \A i \in 1..Len(digits) : IsDigit(digits[i])
       THEN [ok |-> TRUE, value |-> DecimalValue(digits)]
       ELSE [ok |-> FALSE, value |-> 0]

\* write_u32::<BigEndian> and write_u16::<BigEndian>
U32BE(n) == <<(n \div 16777216) % 256, (n \div 65536) % 256, (n \div 256) % 256, n % 256>>
U16BE(n) == <<(n \div 256) % 256, n % 256>>

-----------------------------------------------------------------------------
(* 32-bit words for SHA-1 *)

\* Nibble tables of ^ and &: XorN[a + 1][b + 1] = a ^ b for a, b in 0..15.
XorN ==
    <<
       <<0, 1, 2, 3, 4, 5, 6, 7, 8, 9, 10, 11, 12, 13, 14, 15>>,
       <<1, 0, 3, 2, 5, 4, 7, 6, 9, 8, 11, 10, 13, 12, 15, 14>>,
       <<2, 3, 0, 1, 6, 7, 4, 5, 10, 11, 8, 9, 14, 15, 12, 13>>,
       <<3, 2, 1, 0, 7, 6, 5, 4, 11, 10, 9, 8, 15, 14, 13, 12>>,
       <<4, 5, 6, 7, 0, 1, 2, 3, 12, 13, 14, 15, 8, 9, 10, 11>>,
       <<5, 4, 7, 6, 1, 0, 3, 2, 13, 12, 15, 14, 9, 8, 11, 10>>,
       <<6, 7, 4, 5, 2, 3, 0, 1, 14, 15, 12, 13, 10, 11, 8, 9>>,
       <<7, 6, 5, 4, 3, 2, 1, 0, 15, 14, 13, 12, 11, 10, 9, 8>>,
       <<8, 9, 10, 11, 12, 13, 14, 15, 0, 1, 2, 3, 4, 5, 6, 7>>,
       <<9, 8, 11, 10, 13, 12, 15, 14, 1, 0, 3, 2, 5, 4, 7, 6>>,
       <<10, 11, 8, 9, 14, 15, 12, 13, 2, 3, 0, 1, 6, 7, 4, 5>>,
       <<11, 10, 9, 8, 15, 14, 13, 12, 3, 2, 1, 0, 7, 6, 5, 4>>,
       <<12, 13, 14, 15, 8, 9, 10, 11, 4, 5, 6, 7, 0, 1, 2, 3>>,
       <<13, 12, 15, 14, 9, 8, 11, 10, 5, 4, 7, 6, 1, 0, 3, 2>>,
       <<14, 15, 12, 13, 10, 11, 8, 9, 6, 7, 4, 5, 2, 3, 0, 1>>,
       <<15, 14, 13, 12, 11, 10, 9, 8, 7, 6, 5, 4, 3, 2, 1, 0>> >>
AndN ==
    <<
       <<0, 0, 0, 0, 0, 0, 0, 0, 0, 0, 0, 0, 0, 0, 0, 0>>,
       <<0, 1, 0, 1, 0, 1, 0, 1, 0, 1, 0, 1, 0, 1, 0, 1>>,
       <<0, 0, 2, 2, 0, 0, 2, 2, 0, 0, 2, 2, 0, 0, 2, 2>>,
       <<0, 1, 2, 3, 0, 1, 2, 3, 0, 1, 2, 3, 0, 1, 2, 3>>,
       <<0, 0, 0, 0, 4, 4, 4, 4, 0, 0, 0, 0, 4, 4, 4, 4>>,
       <<0, 1, 0, 1, 4, 5, 4, 5, 0, 1, 0, 1, 4, 5, 4, 5>>,
       <<0, 0, 2, 2, 4, 4, 6, 6, 0, 0, 2, 2, 4, 4, 6, 6>>,
       <<0, 1, 2, 3, 4, 5, 6, 7, 0, 1, 2, 3, 4, 5, 6, 7>>,
       <<0, 0, 0, 0, 0, 0, 0, 0, 8, 8, 8, 8, 8, 8, 8, 8>>,
       <<0, 1, 0, 1, 0, 1, 0, 1, 8, 9, 8, 9, 8, 9, 8, 9>>,
       <<0, 0, 2, 2, 0, 0, 2, 2, 8, 8, 10, 10, 8, 8, 10, 10>>,
       <<0, 1, 2, 3, 0, 1, 2, 3, 8, 9, 10, 11, 8, 9, 10, 11>>,
       <<0, 0, 0, 0, 4, 4, 4, 4, 8, 8, 8, 8, 12, 12, 12, 12>>,
       <<0, 1, 0, 1, 4, 5, 4, 5, 8, 9, 8, 9, 12, 13, 12, 13>>,
       <<0, 0, 2, 2, 4, 4, 6, 6, 8, 8, 10, 10, 12, 12, 14, 14>>,
       <<0, 1, 2, 3, 4, 5, 6, 7, 8, 9, 10, 11, 12, 13, 14, 15>> >>
\* One 16-bit operation, nibble by nibble through the table T.
Nibbles16(T, a, b) ==
      T[(a \div 4096) + 1][(b \div 4096) + 1] * 4096
    + T[((a \div 256) % 16) + 1][((b \div 256) % 16) + 1] * 256
    + T[((a \div 16) % 16) + 1][((b \div 16) % 16) + 1] * 16
    + T[(a % 16) + 1][(b % 16) + 1]
\* One 32-bit operation on words <<high 16 bits, low 16 bits>>.
Nibbles32(T, u, v) == <<Nibbles16(T, u[1], v[1]), Nibbles16(T, u[2], v[2])>>
WXor(u, v) == Nibbles32(XorN, u, v)
WAnd(u, v) == Nibbles32(AndN, u, v)
\* a | b = a + b - (a & b)
OrOfAnd(u, v, uv) == <<u[1] + v[1] - uv[1], u[2] + v[2] - uv[2]>>
WOr(u, v) == OrOfAnd(u, v, WAnd(u, v))
WNot(u) == <<65535 - u[1], 65535 - u[2]>>
\* u32::wrapping_add
wrapping_add(u, v) ==
    <<(u[1] + v[1] + ((u[2] + v[2]) \div 65536)) % 65536, (u[2] + v[2]) % 65536>>
RotlSmall(u, k) == <<((u[1] * Pow2(k)) % 65536) + (u[2] \div Pow2(16 - k)),
                     ((u[2] * Pow2(k)) % 65536) + (u[1] \div Pow2(16 - k))>>
\* u32::rotate_left, 0 <= k < 32
rotate_left(u, k) ==
    IF k = 0 THEN u
    ELSE IF k < 16 THEN RotlSmall(u, k)
    ELSE IF k = 16 THEN <<u[2], u[1]>>
    ELSE RotlSmall(<<u[2], u[1]>>, k - 16)

-----------------------------------------------------------------------------
(* sha1_hash (add.rs) *)

\* h0..h4
Sha1InitialWords ==
    << <<26437, 8961>>, <<61389, 43913>>, <<39098, 56574>>, <<4146, 21622>>, <<50130, 57840>> >>

\* A variant that never lets the padding run into another block.
Sha1ZeroCount_one_block(n) == IF n % 64 < 56 THEN 55 - (n % 64) ELSE 0
\* Zero bytes appended after 0x80 until the length is 56 modulo 64.
Sha1ZeroCount(n) == (119 - (n % 64)) % 64
\* (original_len as u64 * 8).to_be_bytes(), for lengths below 2^28
Sha1BitLenBytes(n) ==
    <<0, 0, 0, 0>> \o U32BE(n * 8)
Sha1Padded(data) ==
    data \o <<128>> \o [i \in 1..Sha1ZeroCount(Len(data)) |-> 0] \o Sha1BitLenBytes(Len(data))

\* w[i] for i in 0..15: u32::from_be_bytes of four chunk bytes.
Sha1ChunkWord(chunk, i) ==
    <<chunk[4 * i + 1] * 256 + chunk[4 * i + 2], chunk[4 * i + 3] * 256 + chunk[4 * i + 4]>>
\* w[i] = (w[i-3] ^ w[i-8] ^ w[i-14] ^ w[i-16]).rotate_left(1); w holds
\* w[0..i-1] at positions 1..i.
Sha1NextWord(w, i) ==
    rotate_left(WXor(WXor(w[i - 2], w[i - 7]), WXor(w[i - 13], w[i - 15])), 1)
\* w[i] for i in [i, stop).  (The loops of sha1_hash are cut into runs of
\* 16 and 20 iterations, and each iteration's value is computed before the
\* next starts, which keeps the evaluation shallow; the values are those of
\* the single loop.)
RECURSIVE Sha1ExtendTo(_, _, _)
Sha1ExtendTo(w, i, stop) ==
    IF i >= stop \/ Len(w) # i THEN w
    ELSE Sha1ExtendTo(Append(w, Sha1NextWord(w, i)), i + 1, stop)
RECURSIVE Sha1ExtendFrom(_, _)
Sha1ExtendFrom(w, i) ==
    IF i >= 80 \/ Len(w) # i THEN w
    ELSE Sha1ExtendFrom(Sha1ExtendTo(w, i, i + 16), i + 16)
Sha1Extend(w) == Sha1ExtendFrom(w, 16)
Sha1Schedule(chunk) == Sha1Extend([i \in 1..16 |-> Sha1ChunkWord(chunk, i - 1)])

Sha1F(i, b, c, d) ==
    IF i <= 19 THEN WOr(WAnd(b, c), WAnd(WNot(b), d))
    ELSE IF i >= 40 /\ i <= 59 THEN WOr(WOr(WAnd(b, c), WAnd(b, d)), WAnd(c, d))
    ELSE WXor(WXor(b, c), d)
Sha1K(i) ==
    IF i <= 19 THEN <<23170, 31129>>
    ELSE IF i <= 39 THEN <<28377, 60321>>
    ELSE IF i <= 59 THEN <<36635, 48348>>
    ELSE <<51810, 49622>>
\* One iteration of the main loop; s = <<a, b, c, d, e>>.
Sha1Step(s, w, i) ==
    <<wrapping_add(wrapping_add(wrapping_add(wrapping_add(
          rotate_left(s[1], 5), Sha1F(i, s[2], s[3], s[4])), s[5]), Sha1K(i)), w[i + 1]),
      s[1], rotate_left(s[2], 30), s[3], s[4]>>
\* Iterations [i, stop) of the main loop.
RECURSIVE Sha1RoundsTo(_, _, _, _)
Sha1RoundsTo(s, w, i, stop) ==
    IF i >= stop \/ Len(s) # 5 THEN s
    ELSE Sha1RoundsTo(Sha1Step(s, w, i), w, i + 1, stop)
RECURSIVE Sha1RoundsFrom(_, _, _)
Sha1RoundsFrom(s, w, i) ==
    IF i >= 80 \/ Len(s) # 5 THEN s
    ELSE Sha1RoundsFrom(Sha1RoundsTo(s, w, i, i + 20), w, i + 20)
Sha1Rounds(s, w) == Sha1RoundsFrom(s, w, 0)
\* h0 = h0.wrapping_add(a) ... h4 = h4.wrapping_add(e)
Sha1AddWords(h, r) == <<wrapping_add(h[1], r[1]), wrapping_add(h[2], r[2]),
                        wrapping_add(h[3], r[3]), wrapping_add(h[4], r[4]),
                        wrapping_add(h[5], r[5])>>
Sha1Chunk(h, chunk) == Sha1AddWords(h, Sha1Rounds(h, Sha1Schedule(chunk)))
\* for chunk in padded.chunks_exact(64)
RECURSIVE Sha1Chunks(_, _)
Sha1Chunks(h, p) ==
    IF Len(p) < 64 \/ Len(h) # 5 THEN h
    ELSE Sha1Chunks(Sha1Chunk(h, SubSeq(p, 1, 64)), SubSeq(p, 65, Len(p)))
Sha1Words(data) == Sha1Chunks(Sha1InitialWords, Sha1Padded(data))

HexDigit(n) == IF n < 10 THEN 48 + n ELSE 87 + n
Hex16(v) == <<HexDigit(v \div 4096), HexDigit((v \div 256) % 16),
              HexDigit((v \div 16) % 16), HexDigit(v % 16)>>
\* format!("{:08x}{:08x}{:08x}{:08x}{:08x}", h0, h1, h2, h3, h4)
Sha1Format(ws) ==
    Hex16(ws[1][1]) \o Hex16(ws[1][2]) \o Hex16(ws[2][1]) \o Hex16(ws[2][2])
    \o Hex16(ws[3][1]) \o Hex16(ws[3][2]) \o Hex16(ws[4][1]) \o Hex16(ws[4][2])
    \o Hex16(ws[5][1]) \o Hex16(ws[5][2])
Sha1Compute(data) == Sha1Format(Sha1Words(data))

\* The five words as 20 bytes, big-endian.
Sha1WordBytes(ws) ==
    U16BE(ws[1][1]) \o U16BE(ws[1][2]) \o U16BE(ws[2][1]) \o U16BE(ws[2][2])
    \o U16BE(ws[3][1]) \o U16BE(ws[3][2]) \o U16BE(ws[4][1]) \o U16BE(ws[4][2])
    \o U16BE(ws[5][1]) \o U16BE(ws[5][2])
\* The digest as 20 bytes.
Sha1Bytes(data) == Sha1WordBytes(Sha1Words(data))

-----------------------------------------------------------------------------
(* hex_to_bytes (add.rs) *)

\* The value of one hexadecimal digit as char::to_digit(16) gives it, or -1.
HexCharValue(c) ==
    IF c >= 48 /\ c <= 57 THEN c - 48
    ELSE IF c >= 97 /\ c <= 102 THEN c - 87
    ELSE IF c >= 65 /\ c <= 70 THEN c - 55
    ELSE -1
\* u8::from_str_radix(chunk, 16) on a chunk of one or two bytes: a leading
\* '+' is accepted when a digit follows it, and both letter cases are digits.
FromStrRadix16(chunk) ==
    LET digits == IF Len(chunk) = 2 /\ chunk[1] = Plus THEN <<chunk[2]>> ELSE chunk
    IN IF \A i \in 1..Len(digits) : HexCharValue(digits[i]) >= 0
       THEN [ok |-> TRUE,
             value |-> IF Len(digits) = 2
                       THEN HexCharValue(digits[1]) * 16 + HexCharValue(digits[2])
                       ELSE HexCharValue(digits[1])]
       ELSE [ok |-> FALSE, value |-> 0]
\* hex.as_bytes().chunks(2): the last chunk has one byte when the length is odd.
HexChunk(hex, i) == SubSeq(hex, 2 * i - 1, Min(2 * i, Len(hex)))
hex_to_bytes(hex) ==
    LET n == (Len(hex) + 1) \div 2
    IN IF \A i \in 1..n : FromStrRadix16(HexChunk(hex, i)).ok
       THEN [ok |-> TRUE, bytes |-> [i \in 1..n |-> FromStrRadix16(HexChunk(hex, i)).value]]
       ELSE [ok |-> FALSE, bytes |-> <<>>]

-----------------------------------------------------------------------------
(* zlib (flate2), at the level of the stream format.                       *)
(* The encoder is modelled by the stored-block encoding of RFC 1950/1951:  *)
(* a 2-byte header, one final stored block (LEN, ~LEN, the data) and the   *)
(* Adler-32 of the data.  The decoder reads stored blocks (block type 0)   *)
(* and rejects every other block type; of those only the reserved type 3,  *)
(* which every decoder rejects, occurs in the inputs of the model.  Which  *)
(* block type the encoder picks is not observable by the program: every    *)
(* read of a stream goes through the decoder.                              *)

AdlerMod == 65521
\* Adler-32 of data: a = 1 + the sum of the bytes, b = the sum of the
\* successive values of a, both modulo 65521.  AdlerRange gives, for
\* data[lo..hi], the sum of the bytes and the sum of the bytes weighted by
\* their distance to hi + 1, by halving the range.
RECURSIVE AdlerRange(_, _, _)
AdlerRange(data, lo, hi) ==
    IF lo > hi THEN <<0, 0>>
    ELSE IF lo = hi THEN <<data[lo], data[lo]>>
    ELSE LET mid == (lo + hi) \div 2
             l == AdlerRange(data, lo, mid)
             r == AdlerRange(data, mid + 1, hi)
         IN <<(l[1] + r[1]) % AdlerMod,
              (l[2] + ((l[1] * ((hi - mid) % AdlerMod)) % AdlerMod) + r[2]) % AdlerMod>>
Adler32Bytes(data) ==
    LET s == AdlerRange(data, 1, Len(data))
        a == (1 + s[1]) % AdlerMod
        b == (Len(data) + s[2]) % AdlerMod
    IN U16BE(b) \o U16BE(a)
U16LE(n) == <<n % 256, (n \div 256) % 256>>

ZlibHeader == <<120, 156>>
\* A stored block: BFINAL/BTYPE byte, LEN, NLEN, data.
StoredBlock(final, data) ==
    <<IF final THEN 1 ELSE 0>> \o U16LE(Len(data)) \o U16LE(65535 - Len(data)) \o data
\* ZlibEncoder::new(.., Compression::default()), write_all(data), finish()
compress_zlib(data) == ZlibHeader \o StoredBlock(TRUE, data) \o Adler32Bytes(data)

\* The zlib header checks every decoder makes (RFC 1950): CM = 8,
\* CINFO <= 7, FCHECK, and no preset dictionary.
ZlibHeaderValid(b0, b1) ==
    /\ b0 % 16 = 8
    /\ b0 \div 16 <= 7
    /\ (b0 * 256 + b1) % 31 = 0
    /\ (b1 \div 32) % 2 = 0

\* Decode the blocks of a stream from position p (1-based) on; out is the
\* data decoded so far.  status: "ok" the stream ended at its end marker;
\* "eof" the input ended inside the stream; "corrupt" the stream is malformed.
\* total_in is the number of input bytes consumed.
RECURSIVE InflateBlocks(_, _, _)
InflateBlocks(input, p, out) ==
    LET n == Len(input)
        eof(o) == [status |-> "eof", out |-> o, total_in |-> n]
        bad == [status |-> "corrupt", out |-> out, total_in |-> 0]
    IN IF p > n THEN eof(out)
       ELSE IF (input[p] \div 2) % 4 # 0 THEN bad
       ELSE IF p + 4 > n THEN eof(out)
       ELSE LET len == input[p + 1] + 256 * input[p + 2]
                nlen == input[p + 3] + 256 * input[p + 4]
                q == p + 5
            IN IF nlen # 65535 - len THEN bad
               ELSE IF q + len - 1 > n THEN eof(out \o SubSeq(input, q, n))
               ELSE LET o2 == out \o SubSeq(input, q, q + len - 1)
                        r == q + len
                    IN IF input[p] % 2 = 0 THEN InflateBlocks(input, r, o2)
                       ELSE IF r + 3 > n THEN eof(o2)
                       ELSE IF SubSeq(input, r, r + 3) # Adler32Bytes(o2)
                            THEN [status |-> "corrupt", out |-> o2, total_in |-> 0]
                       ELSE [status |-> "ok", out |-> o2, total_in |-> r + 3]
\* ZlibDecoder::new(Cursor::new(input)) followed by read_to_end
ZlibDecode(input) ==
    IF Len(input) < 2 THEN [status |-> "eof", out |-> <<>>, total_in |-> Len(input)]
    ELSE IF ~ZlibHeaderValid(input[1], input[2])
         THEN [status |-> "corrupt", out |-> <<>>, total_in |-> 0]
    ELSE InflateBlocks(input, 3, <<>>)
\* read_to_end returns Err for a malformed stream (InvalidInput).  When the
\* input ends inside the stream the decoder's read returns Ok(0), so
\* read_to_end returns Ok with the bytes decoded so far.
ReadToEndOk(d) == d.status # "corrupt"

-----------------------------------------------------------------------------
(* GitObject (objects.rs) *)

\* match parts[0] { "commit" => .., "tree" => .., "blob" => .., "tag" => .., _ => Unknown }
ObjectTypeOf(name) ==
    IF name = S_commit THEN "Commit"
    ELSE IF name = S_tree THEN "Tree"
    ELSE IF name = S_blob THEN "Blob"
    ELSE IF name = S_tag THEN "Tag"
    ELSE "Unknown"

NoObject == [ok |-> FALSE, hash |-> <<>>, object_type |-> "Unknown", size |-> 0, data |-> <<>>]

\* The position of the last occurrence of byte b in s, or 0.
LastIndex(s, b) ==
    IF \E i \in 1..Len(s) : s[i] = b
    THEN CHOOSE i \in 1..Len(s) : s[i] = b /\ \A j \in (i + 1)..Len(s) : s[j] # b
    ELSE 0
\* A variant that ends the header at the last NUL of the data.
parse_object_data_last_nul(hash, data) ==
    LET null_pos == LastIndex(data, NUL)
        header == SubSeq(data, 1, null_pos - 1)
        spaces == {i \in 1..Len(header) : header[i] = Space}
        sp == CHOOSE i \in spaces : TRUE
        size == ParseUsize(SubSeq(header, sp + 1, Len(header)))
    IN IF null_pos = 0 THEN NoObject
       ELSE IF \E i \in 1..Len(header) : header[i] > 127 THEN NoObject
       ELSE IF Cardinality(spaces) # 1 THEN NoObject
       ELSE IF ~size.ok THEN NoObject
       ELSE [ok |-> TRUE,
             hash |-> hash,
             object_type |-> ObjectTypeOf(SubSeq(header, 1, sp - 1)),
             size |-> size.value,
             data |-> SubSeq(data, null_pos + 1, Len(data))]
\* GitObject::parse_object_data.  The header is split at every space and must
\* give exactly two parts.  (Header bytes are ASCII within the bounds, so
\* std::str::from_utf8 succeeds; a byte above 127 is taken as invalid.)
parse_object_data(hash, data) ==
    LET null_pos == FirstIndex(data, NUL)
        header == SubSeq(data, 1, null_pos - 1)
        spaces == {i \in 1..Len(header) : header[i] = Space}
        sp == CHOOSE i \in spaces : TRUE
        size == ParseUsize(SubSeq(header, sp + 1, Len(header)))
    IN IF null_pos = 0 THEN NoObject
       ELSE IF \E i \in 1..Len(header) : header[i] > 127 THEN NoObject
       ELSE IF Cardinality(spaces) # 1 THEN NoObject
       ELSE IF ~size.ok THEN NoObject
       ELSE [ok |-> TRUE,
             hash |-> hash,
             object_type |-> ObjectTypeOf(SubSeq(header, 1, sp - 1)),
             size |-> size.value,
             data |-> SubSeq(data, null_pos + 1, Len(data))]

\* GitObject::from_raw_data
from_raw_data(hash, raw_data) ==
    LET d == ZlibDecode(raw_data)
    IN IF ~ReadToEndOk(d) THEN NoObject ELSE parse_object_data(hash, d.out)

\* GitObject::from_decompressed_data
from_decompressed_data(hash, data) == parse_object_data(hash, data)

-----------------------------------------------------------------------------
(* Bounds and input pools *)

\* Most path arguments in one add invocation.
MaxArgs == 2
\* add of a directory is explored from states with at most this many files
\* under .git (every such add stores one more object per file it finds).
MaxGitFiles == 3
\* Longest payload of the object store round trip.
MaxPayloadLen == 3

S_a_txt == <<97, 46, 116, 120, 116>>
S_b_txt == <<98, 46, 116, 120, 116>>
S_ab_c == <<97, 98, 47, 99>>
S_nope == <<110, 111, 112, 101>>
S_dot_a_txt == S_dot \o <<Slash>> \o S_a_txt
S_dot_b_txt == S_dot \o <<Slash>> \o S_b_txt
C_empty == <<>>
\* "hello\n"
C_hello == <<104, 101, 108, 108, 111, 10>>
\* The contents a working-tree file can have.
Contents == {C_empty, C_hello}
\* The working-tree files, and whether each has an execute permission bit.
WorkFiles == {S_a_txt, S_b_txt}
ExecOf(name) == name = S_b_txt
\* The path arguments of add.
ArgPool == {S_a_txt, S_b_txt, S_dot, S_nope}

\* "ref: refs/heads/master\n"
HEAD_CONTENT ==
    <<114, 101, 102, 58, 32, 114, 101, 102, 115, 47, 104, 101, 97, 100, 115, 47,
      109, 97, 115, 116, 101, 114, 10>>
\* "[core]\n\trepositoryformatversion = 0\n\tfilemode = true\n\tbare = "
CONFIG_PREFIX ==
    <<91, 99, 111, 114, 101, 93, 10,
      9, 114, 101, 112, 111, 115, 105, 116, 111, 114, 121, 102, 111, 114, 109, 97, 116,
      118, 101, 114, 115, 105, 111, 110, 32, 61, 32, 48, 10,
      9, 102, 105, 108, 101, 109, 111, 100, 101, 32, 61, 32, 116, 114, 117, 101, 10,
      9, 98, 97, 114, 101, 32, 61, 32>>
S_true == <<116, 114, 117, 101>>
S_false == <<102, 97, 108, 115, 101>>
CONFIG_CONTENT(bare) == CONFIG_PREFIX \o (IF bare THEN S_true ELSE S_false) \o <<10>>
\* "Unnamed repository; edit this file 'description' to name the repository.\n"
DESCRIPTION_CONTENT ==
    <<85, 110, 110, 97, 109, 101, 100, 32, 114, 101, 112, 111, 115, 105, 116, 111, 114, 121, 59, 32,
      101, 100, 105, 116, 32, 116, 104, 105, 115, 32, 102, 105, 108, 101, 32,
      39, 100, 101, 115, 99, 114, 105, 112, 116, 105, 111, 110, 39, 32,
      116, 111, 32, 110, 97, 109, 101, 32, 116, 104, 101, 32,
      114, 101, 112, 111, 115, 105, 116, 111, 114, 121, 46, 10>>

\* The payloads of the object store round trip: byte strings over NUL,
\* space and 'a' (a payload may itself hold the header's separators).
PayloadBytes == {0, 32, 97}
Payloads == UNION {[1..n -> PayloadBytes] : n \in 0..MaxPayloadLen}

-----------------------------------------------------------------------------
(* The file system *)

DirNode == [kind |-> "dir", content |-> <<>>, exec |-> FALSE, mtime |-> 0]
FileNode(content, exec) == [kind |-> "file", content |-> content, exec |-> exec, mtime |-> 1700000000]

\* The components of a path string: split at '/', without empty and "."
\* components (no path of the model holds "..").
RECURSIVE SplitPath(_)
SplitPath(s) ==
    LET i == FirstIndex(s, Slash)
        head == IF i = 0 THEN s ELSE SubSeq(s, 1, i - 1)
        rest == IF i = 0 THEN <<>> ELSE SplitPath(SubSeq(s, i + 1, Len(s)))
    IN IF s = <<>> THEN <<>>
       ELSE IF head = <<>> \/ head = S_dot THEN rest
       ELSE <<head>> \o rest

\* Path::exists, Path::is_file, Path::is_dir
PathExists(f, s) == SplitPath(s) \in DOMAIN f
IsFile(f, s) == PathExists(f, s) /\ f[SplitPath(s)].kind = "file"
IsDir(f, s) == PathExists(f, s) /\ f[SplitPath(s)].kind = "dir"
\* Path::join
PathJoin(dir, name) ==
    IF dir # <<>> /\ dir[Len(dir)] = Slash THEN dir \o name ELSE dir \o <<Slash>> \o name

Prefixes(p) == {SubSeq(p, 1, k) : k \in 0..Len(p)}
Put(f, p, node) == [q \in DOMAIN f \cup {p} |-> IF q = p THEN node ELSE f[q]]
\* fs::create_dir_all
create_dir_all(f, s) ==
    [q \in DOMAIN f \cup Prefixes(SplitPath(s)) |-> IF q \in DOMAIN f THEN f[q] ELSE DirNode]
\* fs::create_dir: fails when the path exists or its parent is missing.
CanCreateDir(f, s) ==
    LET p == SplitPath(s)
    IN p # <<>> /\ p \notin DOMAIN f
       /\ SubSeq(p, 1, Len(p) - 1) \in DOMAIN f
       /\ f[SubSeq(p, 1, Len(p) - 1)].kind = "dir"
create_dir(f, s) == Put(f, SplitPath(s), DirNode)
\* fs::write: creates the file or replaces its contents; fails when the
\* parent is no directory or the path is a directory.
CanWrite(f, s) ==
    LET p == SplitPath(s)
    IN p # <<>>
       /\ SubSeq(p, 1, Len(p) - 1) \in DOMAIN f
       /\ f[SubSeq(p, 1, Len(p) - 1)].kind = "dir"
       /\ (p \in DOMAIN f => f[p].kind = "file")
fs_write(f, s, content) ==
    LET p == SplitPath(s)
    IN Put(f, p, FileNode(content, IF p \in DOMAIN f THEN f[p].exec ELSE FALSE))

FilesUnder(f, comps) ==
    {p \in DOMAIN f : Len(p) > Len(comps) /\ SubSeq(p, 1, Len(comps)) = comps /\ f[p].kind = "file"}

-----------------------------------------------------------------------------
(* add.rs: blob objects *)

S_git_objects == S_git \o <<Slash>> \o S_objects
S_git_index == S_git \o <<Slash>> \o S_index

\* format!("blob {}\0", content.len()) followed by the content
object_content(content) == S_blob \o <<Space>> \o ToDecimal(Len(content)) \o <<NUL>> \o content

\* The digests of the envelopes of the file contents that add meets in a
\* freshly initialised repository, computed once.
StagedContents == Contents \cup {HEAD_CONTENT, CONFIG_CONTENT(FALSE), DESCRIPTION_CONTENT}
EnvelopeDigest == [e \in {object_content(c) : c \in StagedContents} |-> Sha1Compute(e)]

\* fs::create_dir_all fails when a component of the path is a file.
CanCreateDirAll(f, s) == \A q \in Prefixes(SplitPath(s)) : q \in DOMAIN f => f[q].kind = "dir"

\* A variant that writes the object file whether or not it exists.
write_object_always(f, hash, compressed) ==
    LET dir_name == SubSeq(hash, 1, 2)
        file_name == SubSeq(hash, 3, Len(hash))
        object_dir == S_git_objects \o <<Slash>> \o dir_name
        object_path == object_dir \o <<Slash>> \o file_name
        f1 == IF ~PathExists(f, object_dir) THEN create_dir_all(f, object_dir) ELSE f
    IN IF ~PathExists(f, object_dir) /\ ~CanCreateDirAll(f, object_dir)
       THEN [ok |-> FALSE, fs |-> f, hash |-> hash, writes |-> {}]
       ELSE IF ~CanWrite(f1, object_path)
       THEN [ok |-> FALSE, fs |-> f1, hash |-> hash, writes |-> {}]
       ELSE [ok |-> TRUE, fs |-> fs_write(f1, object_path, compressed), hash |-> hash,
             writes |-> {object_path}]
\* The tail of create_blob_object: the object directory and the object file.
write_object(f, hash, compressed) ==
    LET dir_name == SubSeq(hash, 1, 2)
        file_name == SubSeq(hash, 3, Len(hash))
        object_dir == S_git_objects \o <<Slash>> \o dir_name
        object_path == object_dir \o <<Slash>> \o file_name
        f1 == IF ~PathExists(f, object_dir) THEN create_dir_all(f, object_dir) ELSE f
    IN IF ~PathExists(f, object_dir) /\ ~CanCreateDirAll(f, object_dir)
       THEN [ok |-> FALSE, fs |-> f, hash |-> hash, writes |-> {}]
       ELSE IF PathExists(f1, object_path)
       THEN [ok |-> TRUE, fs |-> f1, hash |-> hash, writes |-> {}]
       ELSE IF ~CanWrite(f1, object_path)
       THEN [ok |-> FALSE, fs |-> f1, hash |-> hash, writes |-> {}]
       ELSE [ok |-> TRUE, fs |-> fs_write(f1, object_path, compressed), hash |-> hash,
             writes |-> {object_path}]

-----------------------------------------------------------------------------
(* add.rs: the staging file writer *)

\* The staging map is a function from path strings to IndexEntry records.
EmptyIndex == [p \in {} |-> 0]
IndexEntry(hash, mode, size, mtime) == [hash |-> hash, mode |-> mode, size |-> size, mtime |-> mtime]
\* index.insert(path, entry)
IndexInsert(index, path, entry) ==
    [p \in DOMAIN index \cup {path} |-> IF p = path THEN entry ELSE index[p]]

\* 0o100755 and 0o100644
MODE_EXECUTABLE == 33261
MODE_REGULAR == 33188
get_file_mode(node) == IF node.exec THEN MODE_EXECUTABLE ELSE MODE_REGULAR
get_mtime(node) == node.mtime

\* The ten 32-bit fields, the hash, the flags, the path and its terminator.
EntryFields(path, entry, hash_bytes) ==
    U32BE(entry.mtime) \o U32BE(0) \o U32BE(entry.mtime) \o U32BE(0)
    \o U32BE(0) \o U32BE(0) \o U32BE(entry.mode) \o U32BE(0) \o U32BE(0) \o U32BE(entry.size)
    \o hash_bytes \o U16BE(Min(Len(path), 4095)) \o path \o <<NUL>>
\* while content.len() % 8 != 0 { content.push(0) }
PadTo8(content) == content \o [i \in 1..((8 - (Len(content) % 8)) % 8) |-> 0]

\* A variant that pads each entry to a multiple of 8 bytes of its own length.
write_index_entry_own_length(content, path, entry) ==
    LET Converted(hb) ==
            IF ~hb.ok \/ Len(hb.bytes) # 20 THEN [ok |-> FALSE, content |-> content]
            ELSE [ok |-> TRUE, content |-> content \o PadTo8(EntryFields(path, entry, hb.bytes))]
    IN Converted(hex_to_bytes(entry.hash))
write_index_entry(content, path, entry) ==
    LET Converted(hb) ==
            IF ~hb.ok \/ Len(hb.bytes) # 20 THEN [ok |-> FALSE, content |-> content]
            ELSE [ok |-> TRUE, content |-> PadTo8(content \o EntryFields(path, entry, hb.bytes))]
    IN Converted(hex_to_bytes(entry.hash))

\* entries.sort_by_key(|(path, _)| *path): a stable sort, by insertion.
RECURSIVE SortedInsert(_, _)
SortedInsert(sorted, p) ==
    IF sorted = <<>> THEN <<p>>
    ELSE IF ByteLess(p, Head(sorted)) THEN <<p>> \o sorted
    ELSE <<Head(sorted)>> \o SortedInsert(Tail(sorted), p)
RECURSIVE sort_by_key(_)
sort_by_key(s) ==
    IF s = <<>> THEN <<>>
    ELSE SortedInsert(sort_by_key(SubSeq(s, 1, Len(s) - 1)), s[Len(s)])

\* for (path, entry) in entries { write_index_entry(&mut content, path, entry)? }
RECURSIVE write_entries(_, _, _)
write_entries(content, index, paths) ==
    IF paths = <<>> THEN [ok |-> TRUE, content |-> content]
    ELSE LET Written(r) == IF ~r.ok THEN r ELSE write_entries(r.content, index, Tail(paths))
         IN Written(write_index_entry(content, Head(paths), index[Head(paths)]))

\* A variant that writes the entries in the order the map iterates them.
serialize_entries_unsorted(index, order) ==
    write_entries(S_DIRC \o U32BE(2) \o U32BE(Cardinality(DOMAIN index)), index, order)
\* serialize_index up to the checksum: the header, then the entries sorted
\* by path.  order is the order in which the HashMap iterates its entries.
serialize_entries(index, order) ==
    write_entries(S_DIRC \o U32BE(2) \o U32BE(Cardinality(DOMAIN index)), index, sort_by_key(order))

\* Some iteration order of the map: the paths, largest first.
RECURSIVE DescendingOrder(_)
DescendingOrder(paths) ==
    IF paths = {} THEN <<>>
    ELSE LET m == CHOOSE p \in paths : \A q \in paths \ {p} : ByteLess(q, p)
         IN <<m>> \o DescendingOrder(paths \ {m})
IterationOrder(index) == DescendingOrder(DOMAIN index)

\* The staging maps add saves for the working-tree files of a freshly
\* initialised repository (one file, or every file below "."), and the
\* digests of their serialized entries, computed once.
FreshEntry(digest, content, exec) ==
    IndexEntry(digest[object_content(content)], get_file_mode(FileNode(content, exec)),
               Len(content), get_mtime(FileNode(content, exec)))
FreshGitEntries(digest) ==
    (S_dot \o <<Slash>> \o S_git \o <<Slash>> \o S_HEAD :> FreshEntry(digest, HEAD_CONTENT, FALSE))
    @@ (S_dot \o <<Slash>> \o S_git \o <<Slash>> \o S_config :> FreshEntry(digest, CONFIG_CONTENT(FALSE), FALSE))
    @@ (S_dot \o <<Slash>> \o S_git \o <<Slash>> \o S_description :> FreshEntry(digest, DESCRIPTION_CONTENT, FALSE))
FreshIndexes(digest) ==
    {(w :> FreshEntry(digest, c, ExecOf(w))) : w \in WorkFiles, c \in Contents}
    \cup {(S_dot_a_txt :> FreshEntry(digest, ca, ExecOf(S_a_txt)))
          @@ (S_dot_b_txt :> FreshEntry(digest, cb, ExecOf(S_b_txt)))
          @@ FreshGitEntries(digest) : ca \in Contents, cb \in Contents}
    \cup {EmptyIndex}
IndexDigest(digest) ==
    [c \in {serialize_entries(m, IterationOrder(m)).content : m \in FreshIndexes(digest)}
        |-> Sha1Compute(c)]
\* Both tables in one.
DigestTable(digest) == digest @@ IndexDigest(digest)
KnownDigest == DigestTable(EnvelopeDigest)
\* The value the table holds for data, and computed otherwise.
DigestOf(table, data) == IF data \in DOMAIN table THEN table[data] ELSE Sha1Compute(data)

\* sha1_hash: the digest as 40 lower-case hexadecimal digits.
sha1_hash(data) == DigestOf(KnownDigest, data)

\* A variant that appends the digest of the header alone.
serialize_index_header_checksum(index, order) ==
    LET Checked(r, checksum_bytes) ==
            IF ~r.ok \/ ~checksum_bytes.ok THEN [ok |-> FALSE, content |-> <<>>]
            ELSE [ok |-> TRUE, content |-> r.content \o checksum_bytes.bytes]
        Written(r) == Checked(r, hex_to_bytes(sha1_hash(SubSeq(r.content, 1, 12))))
    IN Written(serialize_entries(index, order))
serialize_index(index, order) ==
    LET Checked(r, checksum_bytes) ==
            IF ~r.ok \/ ~checksum_bytes.ok THEN [ok |-> FALSE, content |-> <<>>]
            ELSE [ok |-> TRUE, content |-> r.content \o checksum_bytes.bytes]
        Written(r) == Checked(r, hex_to_bytes(sha1_hash(r.content)))
    IN Written(serialize_entries(index, order))

\* A variant that names the object by the digest of its compressed form.
create_blob_object_compressed_name(f, content) ==
    write_object(f, sha1_hash(compress_zlib(object_content(content))),
                 compress_zlib(object_content(content)))
create_blob_object(f, content) ==
    write_object(f, sha1_hash(object_content(content)), compress_zlib(object_content(content)))

\* A variant of add_file_to_index that stages the file without storing its
\* blob.
add_file_to_index_unstored(f, index, file_path) ==
    LET Staged(node) ==
            [ok |-> TRUE, fs |-> f,
             index |-> IndexInsert(index, file_path,
                           IndexEntry(sha1_hash(object_content(node.content)), get_file_mode(node),
                                      Len(node.content), get_mtime(node)))]
    IN IF ~IsFile(f, file_path) THEN [ok |-> FALSE, fs |-> f, index |-> index]
       ELSE Staged(f[SplitPath(file_path)])
\* fs::read and fs::metadata succeed on every regular file of the model.
add_file_to_index(f, index, file_path) ==
    LET Stored(node, blob) ==
            IF ~blob.ok THEN [ok |-> FALSE, fs |-> blob.fs, index |-> index]
            ELSE [ok |-> TRUE, fs |-> blob.fs,
                  index |-> IndexInsert(index, file_path,
                                IndexEntry(blob.hash, get_file_mode(node), Len(node.content),
                                           get_mtime(node)))]
        Read(node) == Stored(node, create_blob_object(f, node.content))
    IN IF ~IsFile(f, file_path) THEN [ok |-> FALSE, fs |-> f, index |-> index]
       ELSE Read(f[SplitPath(file_path)])

\* The files below dir, each named as fs::read_dir names it: the directory's
\* path joined with the entry's name.
RECURSIVE collect_files(_, _)
collect_files(f, dir) ==
    LET d == SplitPath(dir)
        entries == {p \in DOMAIN f : Len(p) = Len(d) + 1 /\ SubSeq(p, 1, Len(d)) = d}
    IN UNION {IF f[p].kind = "file" THEN {PathJoin(dir, p[Len(p)])}
              ELSE collect_files(f, PathJoin(dir, p[Len(p)])) : p \in entries}

S_git_slash == S_git \o <<Slash>>
\* if file_path.starts_with(".git/") || file_path == ".git" { continue; }
SkippedByAdd(file_path) == StartsWith(file_path, S_git_slash) \/ file_path = S_git

\* for file_path in files_to_add { ..; add_file_to_index(index, &file_path)? }
\* The files are taken smallest path first; the order read_dir gives them in
\* does not change the outcome, since no addition fails in the model and the
\* additions are to different paths.
RECURSIVE add_files(_, _, _)
add_files(f, index, files) ==
    IF files = {} THEN [ok |-> TRUE, fs |-> f, index |-> index]
    ELSE LET Added(fp, r) == IF ~r.ok THEN r ELSE add_files(r.fs, r.index, files \ {fp})
             Taken(fp) == Added(fp, add_file_to_index(f, index, fp))
         IN Taken(CHOOSE p \in files : \A q \in files \ {p} : ByteLess(p, q))
add_directory_to_index(f, index, dir_path) ==
    add_files(f, index, {fp \in collect_files(f, dir_path) : ~SkippedByAdd(fp)})

(* Reading a staging file back, by its contents alone: an entry is 62 fixed *)
(* bytes, the path up to its NUL, and the NUL bytes after it; the next      *)
(* entry starts at the first byte that is not NUL (the first byte of a      *)
(* time stamp), and the last entry ends where the 20-byte trailer starts.   *)

U32Value(b, i) == ((b[i] * 256 + b[i + 1]) * 256 + b[i + 2]) * 256 + b[i + 3]
\* The number of entries the header declares.
EntryCount(bytes) == U32Value(bytes, 9)
FirstFrom(bytes, from, isNul) ==
    LET hits == {i \in from..Len(bytes) : (bytes[i] = NUL) = isNul}
    IN IF hits = {} THEN Len(bytes) + 1 ELSE CHOOSE i \in hits : \A j \in hits : i <= j
\* The entries from position pos (1-based) on, k of them left to read; each
\* is given with the file offset (0-based) of its first byte and of the
\* first byte after it.
RECURSIVE ReadEntriesFrom(_, _, _)
ReadEntriesFrom(bytes, pos, k) ==
    LET nul == FirstFrom(bytes, pos + 62, TRUE)
        next == IF k = 1 THEN Len(bytes) - 19 ELSE FirstFrom(bytes, nul, FALSE)
        e == [start |-> pos - 1, end |-> next - 1,
              path |-> SubSeq(bytes, pos + 62, nul - 1),
              hash |-> SubSeq(bytes, pos + 40, pos + 59),
              mode |-> U32Value(bytes, pos + 24),
              size |-> U32Value(bytes, pos + 36)]
    IN IF k = 0 \/ nul > Len(bytes) - 20 THEN <<>>
       ELSE <<e>> \o ReadEntriesFrom(bytes, next, k - 1)
ReadEntries(bytes) ==
    IF Len(bytes) < 32 \/ SubSeq(bytes, 1, 4) # S_DIRC THEN <<>>
    ELSE ReadEntriesFrom(bytes, 13, EntryCount(bytes))
EntryPaths(bytes) == [i \in 1..Len(ReadEntries(bytes)) |-> ReadEntries(bytes)[i].path]

\* A variant of parse_index that reads the entries the file holds.
parse_index_reading(content) ==
    LET es == ReadEntries(content)
        HashHex(hb) == [k \in 1..(2 * Len(hb)) |->
                           IF k % 2 = 1 THEN HexDigit(hb[(k + 1) \div 2] \div 16)
                           ELSE HexDigit(hb[k \div 2] % 16)]
        EntryOf(e) == IndexEntry(HashHex(e.hash), e.mode, e.size, U32Value(content, e.start + 1))
    IN [p \in {es[i].path : i \in 1..Len(es)} |->
           EntryOf(es[CHOOSE i \in 1..Len(es) : es[i].path = p])]
\* parse_index returns an empty map whatever the file holds.
parse_index(content) == EmptyIndex
load_index(f) ==
    IF ~PathExists(f, S_git_index) THEN [ok |-> TRUE, index |-> EmptyIndex]
    ELSE IF ~IsFile(f, S_git_index) THEN [ok |-> FALSE, index |-> EmptyIndex]
    ELSE [ok |-> TRUE, index |-> parse_index(f[SplitPath(S_git_index)].content)]
save_index(f, index) ==
    LET Serialized(content) ==
            IF ~content.ok \/ ~CanWrite(f, S_git_index) THEN [ok |-> FALSE, fs |-> f]
            ELSE [ok |-> TRUE, fs |-> fs_write(f, S_git_index, content.content)]
    IN Serialized(serialize_index(index, IterationOrder(index)))

add_path(f, path) ==
    LET Saved(saved) ==
            IF ~saved.ok THEN [ok |-> FALSE, fs |-> saved.fs, error |-> "save"]
            ELSE [ok |-> TRUE, fs |-> saved.fs, error |-> ""]
        Added(added) ==
            IF ~added.ok THEN [ok |-> FALSE, fs |-> added.fs, error |-> "add"]
            ELSE Saved(save_index(added.fs, added.index))
        Loaded(loaded_index) ==
            IF ~loaded_index.ok THEN [ok |-> FALSE, fs |-> f, error |-> "index"]
            ELSE Added(IF IsFile(f, path) THEN add_file_to_index(f, loaded_index.index, path)
                       ELSE IF IsDir(f, path)
                       THEN add_directory_to_index(f, loaded_index.index, path)
                       ELSE [ok |-> TRUE, fs |-> f, index |-> loaded_index.index])
    IN IF ~PathExists(f, path) THEN [ok |-> FALSE, fs |-> f, error |-> "pathspec"]
       ELSE Loaded(load_index(f))

-----------------------------------------------------------------------------
(* init.rs *)

\* The steps of initialize_repository after the reinitialization check, in
\* order; each is a create_dir or a write_file, and the first that fails
\* ends the function with its error.
MkdirStep(path, error) == [kind |-> "create_dir", path |-> path, content |-> <<>>, error |-> error]
WriteStep(path, content, error) == [kind |-> "write_file", path |-> path, content |-> content, error |-> error]
RECURSIVE RunSteps(_, _)
RunSteps(f, steps) ==
    IF steps = <<>> THEN [ok |-> TRUE, fs |-> f, error |-> ""]
    ELSE LET s == Head(steps)
         IN IF s.kind = "create_dir"
            THEN IF CanCreateDir(f, s.path) THEN RunSteps(create_dir(f, s.path), Tail(steps))
                 ELSE [ok |-> FALSE, fs |-> f, error |-> s.error]
            ELSE IF CanWrite(f, s.path) THEN RunSteps(fs_write(f, s.path, s.content), Tail(steps))
                 ELSE [ok |-> FALSE, fs |-> f, error |-> s.error]

\* A variant that writes the configuration of a non-bare repository whatever
\* the flag, and makes no refs/tags.
LayoutSteps_fixed_config(git_dir, bare) ==
    << MkdirStep(PathJoin(git_dir, S_objects), "objects"),
       MkdirStep(PathJoin(git_dir, S_refs), "refs"),
       MkdirStep(PathJoin(git_dir, S_refs \o <<Slash>> \o S_heads), "refs/heads"),
       WriteStep(PathJoin(git_dir, S_HEAD), HEAD_CONTENT, "HEAD"),
       WriteStep(PathJoin(git_dir, S_config), CONFIG_CONTENT(FALSE), "config"),
       WriteStep(PathJoin(git_dir, S_description), DESCRIPTION_CONTENT, "description") >>
\* The steps of a repository whose metadata directory is git_dir, given
\* relative to the initial working directory.
LayoutSteps(git_dir, bare) ==
    << MkdirStep(PathJoin(git_dir, S_objects), "objects"),
       MkdirStep(PathJoin(git_dir, S_refs), "refs"),
       MkdirStep(PathJoin(git_dir, S_refs \o <<Slash>> \o S_heads), "refs/heads"),
       MkdirStep(PathJoin(git_dir, S_refs \o <<Slash>> \o S_tags), "refs/tags"),
       WriteStep(PathJoin(git_dir, S_HEAD), HEAD_CONTENT, "HEAD"),
       WriteStep(PathJoin(git_dir, S_config), CONFIG_CONTENT(bare), "config"),
       WriteStep(PathJoin(git_dir, S_description), DESCRIPTION_CONTENT, "description") >>

\* let git_dir = if bare { "." } else { ".git" }, after set_current_dir(directory)
GitDirOf(directory, bare) == IF bare THEN directory ELSE PathJoin(directory, S_git)

\* A variant without the check for an existing HEAD.
initialize_repository_unchecked(f, directory, bare) ==
    LET f1 == IF directory # S_dot /\ ~PathExists(f, directory) THEN create_dir(f, directory) ELSE f
        git_dir == GitDirOf(directory, bare)
        steps == (IF bare THEN <<>> ELSE <<MkdirStep(git_dir, ".git")>>) \o LayoutSteps(git_dir, bare)
    IN IF directory # S_dot /\ ~PathExists(f, directory) /\ ~CanCreateDir(f, directory)
       THEN [ok |-> FALSE, fs |-> f, error |-> "directory"]
       ELSE IF ~IsDir(f1, directory) THEN [ok |-> FALSE, fs |-> f1, error |-> "chdir"]
       ELSE RunSteps(f1, steps)
initialize_repository(f, directory, bare) ==
    LET f1 == IF directory # S_dot /\ ~PathExists(f, directory) THEN create_dir(f, directory) ELSE f
        git_dir == GitDirOf(directory, bare)
        steps == (IF bare THEN <<>> ELSE <<MkdirStep(git_dir, ".git")>>) \o LayoutSteps(git_dir, bare)
    IN IF directory # S_dot /\ ~PathExists(f, directory) /\ ~CanCreateDir(f, directory)
       THEN [ok |-> FALSE, fs |-> f, error |-> "directory"]
       ELSE IF ~IsDir(f1, directory) THEN [ok |-> FALSE, fs |-> f1, error |-> "chdir"]
       ELSE IF PathExists(f1, PathJoin(git_dir, S_HEAD))
       THEN [ok |-> FALSE, fs |-> f1, error |-> "Reinitialization"]
       ELSE RunSteps(f1, steps)

\* A directory that holds nothing.
EmptyDir == (<<>> :> DirNode)
\* The working directory add runs in: a repository made by init, and the
\* working-tree files with the given contents.
Worktree(ca, cb) ==
    Put(Put(initialize_repository(EmptyDir, S_dot, FALSE).fs,
            SplitPath(S_a_txt), FileNode(ca, ExecOf(S_a_txt))),
        SplitPath(S_b_txt), FileNode(cb, ExecOf(S_b_txt)))

-----------------------------------------------------------------------------
(* The add command *)

NoCommand == [cmd |-> "none", args |-> <<>>, outcome |-> "", error |-> ""]

\* The variables of the other specifications, at rest.
SerializerIdle == stagingMap = EmptyIndex /\ iterOrder = <<>> /\ serialized = <<>>
RoundTripIdle == payload = <<>> /\ putHash = <<>> /\ loaded = NoObject /\ lastWrites = {}
PackIdle == pack = <<>> /\ offsets = EmptyIndex /\ cursor = 0 /\ processed = 0
            /\ objects = <<>> /\ walk = "start"
AddIdle == run = "idle" /\ argq = <<>> /\ stagedBefore = <<>>
RaceIdle == writers = <<>>
NoCall == [fn |-> "none"]
CallIdle == callArg = <<>> /\ callResult = NoCall

Init ==
    /\ fs \in {Worktree(ca, cb) : ca \in Contents, cb \in Contents}
    /\ last = NoCommand
    /\ AddIdle /\ RaceIdle /\ SerializerIdle /\ RoundTripIdle /\ PackIdle /\ CallIdle

ArgLists == UNION {[1..n -> ArgPool] : n \in 0..MaxArgs}

\* The environment replaces the contents of a working-tree file.
WriteFile(name, content) ==
    /\ run = "idle"
    /\ fs[SplitPath(name)].content # content
    /\ fs' = fs_write(fs, name, content)
    /\ last' = NoCommand
    /\ UNCHANGED <<stagedBefore, writers, callArg, callResult,
                   run, argq, lastWrites, stagingMap, iterOrder, serialized, payload, putHash,
                   loaded, pack, offsets, cursor, processed, objects, walk>>

\* The bytes of the staging file, none when there is no such file.
StagingFile(f) == IF IsFile(f, S_git_index) THEN f[SplitPath(S_git_index)].content ELSE <<>>
\* add::execute up to its loop; args are the arguments after "add".
\* stagedBefore keeps the staging file as the invocation found it; the
\* program keeps no such copy.
AddExecute(args) ==
    /\ run = "idle"
    /\ stagedBefore' = StagingFile(fs)
    /\ IF Len(args) = 0
       THEN /\ last' = [cmd |-> "add", args |-> args, outcome |-> "exit", error |-> "nothing specified"]
            /\ UNCHANGED <<run, argq>>
       ELSE IF ~PathExists(fs, S_git)
       THEN /\ last' = [cmd |-> "add", args |-> args, outcome |-> "fatal", error |-> "not a git repository"]
            /\ UNCHANGED <<run, argq>>
       ELSE /\ last' = [cmd |-> "add", args |-> args, outcome |-> "running", error |-> ""]
            /\ run' = "adding"
            /\ argq' = args
    /\ UNCHANGED <<writers, callArg, callResult,
                   fs, lastWrites, stagingMap, iterOrder, serialized, payload, putHash,
                   loaded, pack, offsets, cursor, processed, objects, walk>>

\* A variant of the iteration that rolls back: when add_path fails, the
\* staging file is put back as the invocation found it.
AddPathStep_rollback ==
    /\ run = "adding"
    /\ IsDir(fs, Head(argq)) => Cardinality(FilesUnder(fs, <<S_git>>)) <= MaxGitFiles
    /\ \E r \in {add_path(fs, Head(argq))} :
          /\ fs' = IF r.ok THEN r.fs
                   ELSE IF stagedBefore = <<>>
                   THEN [q \in DOMAIN r.fs \ {SplitPath(S_git_index)} |-> r.fs[q]]
                   ELSE fs_write(r.fs, S_git_index, stagedBefore)
          /\ IF ~r.ok
             THEN /\ run' = "idle"
                  /\ argq' = <<>>
                  /\ last' = [last EXCEPT !.outcome = "fatal", !.error = r.error]
             ELSE IF Tail(argq) = <<>>
             THEN /\ run' = "idle"
                  /\ argq' = <<>>
                  /\ last' = [last EXCEPT !.outcome = "ok"]
             ELSE /\ argq' = Tail(argq)
                  /\ UNCHANGED <<run, last>>
    /\ UNCHANGED <<stagedBefore, writers, callArg, callResult,
                   lastWrites, stagingMap, iterOrder, serialized, payload, putHash,
                   loaded, pack, offsets, cursor, processed, objects, walk>>

\* One iteration of the loop of add::execute: add_path on the next argument.
AddPathStep ==
    /\ run = "adding"
    /\ IsDir(fs, Head(argq)) => Cardinality(FilesUnder(fs, <<S_git>>)) <= MaxGitFiles
    /\ \E r \in {add_path(fs, Head(argq))} :
          /\ fs' = r.fs
          /\ IF ~r.ok
             THEN /\ run' = "idle"
                  /\ argq' = <<>>
                  /\ last' = [last EXCEPT !.outcome = "fatal", !.error = r.error]
             ELSE IF Tail(argq) = <<>>
             THEN /\ run' = "idle"
                  /\ argq' = <<>>
                  /\ last' = [last EXCEPT !.outcome = "ok"]
             ELSE /\ argq' = Tail(argq)
                  /\ UNCHANGED <<run, last>>
    /\ UNCHANGED <<stagedBefore, writers, callArg, callResult,
                   lastWrites, stagingMap, iterOrder, serialized, payload, putHash,
                   loaded, pack, offsets, cursor, processed, objects, walk>>

Next ==
    \/ \E name \in WorkFiles, content \in Contents : WriteFile(name, content)
    \/ \E args \in ArgLists : AddExecute(args)
    \/ AddPathStep

Spec == Init /\ [][Next]_vars

-----------------------------------------------------------------------------
(* The serializer on its own: serialize_index applied to a staging map *)

\* Paths of the staging maps under test: "B", "a.txt" and "ab/c", whose
\* byte order is B < a.txt < ab/c and whose entries differ in length.
S_B == <<66>>
PathPool == {S_B, S_a_txt, S_ab_c}
\* Number of different entries a path can be staged with.
MaxEntryKinds == 2
EntryKinds ==
    << IndexEntry(EnvelopeDigest[object_content(C_empty)], MODE_REGULAR, 0, 1700000000),
       IndexEntry(EnvelopeDigest[object_content(C_hello)], MODE_EXECUTABLE, 6, 1700000001),
       IndexEntry(EnvelopeDigest[object_content(HEAD_CONTENT)], MODE_REGULAR, 23, 1700000002),
       IndexEntry(EnvelopeDigest[object_content(DESCRIPTION_CONTENT)], MODE_EXECUTABLE, 73, 1700000003) >>
EntryPool == {EntryKinds[i] : i \in 1..Min(MaxEntryKinds, Len(EntryKinds))}
StagingMaps == UNION {[ps -> EntryPool] : ps \in SUBSET PathPool}
\* The orders in which a HashMap with these keys can iterate.
IterationOrders(keys) ==
    {s \in [1..Cardinality(keys) -> keys] : \A i, j \in 1..Cardinality(keys) : i # j => s[i] # s[j]}

InitIndex ==
    /\ stagingMap \in StagingMaps
    /\ iterOrder = <<>>
    /\ serialized = <<>>
    /\ fs = EmptyDir
    /\ last = NoCommand
    /\ AddIdle /\ RaceIdle /\ RoundTripIdle /\ PackIdle /\ CallIdle

\* serialize_index(stagingMap), the map iterating in the given order.
Serialize(order) ==
    /\ serialized = <<>>
    /\ LET r == serialize_index(stagingMap, order)
       IN r.ok /\ serialized' = r.content
    /\ iterOrder' = order
    /\ UNCHANGED <<stagedBefore, writers, callArg, callResult,
                   fs, run, argq, lastWrites, last, stagingMap, payload, putHash, loaded,
                   pack, offsets, cursor, processed, objects, walk>>

NextIndex == \E order \in IterationOrders(DOMAIN stagingMap) : Serialize(order)

SpecIndex == InitIndex /\ [][NextIndex]_vars


-----------------------------------------------------------------------------
(* Claims about the serializer (SpecIndex) *)

\* The bytes of the staging file before its 20-byte trailer.
Body(bytes) == SubSeq(bytes, 1, Len(bytes) - 20)
Trailer(bytes) == SubSeq(bytes, Len(bytes) - 19, Len(bytes))

\* C4: the entries of the serialized staging file are in strictly ascending
\* byte-lexicographic order of path, there is exactly one entry for each
\* path of the map, and the bytes are the same for every order in which the
\* map can iterate.
C4_EntriesAscendingByPath ==
    serialized # <<>> =>
        LET ps == EntryPaths(serialized)
        IN /\ Len(ps) = Cardinality(DOMAIN stagingMap)
           /\ {ps[i] : i \in 1..Len(ps)} = DOMAIN stagingMap
           /\ \A i \in 1..(Len(ps) - 1) : ByteLess(ps[i], ps[i + 1])
           /\ \A o \in IterationOrders(DOMAIN stagingMap) :
                 serialize_entries(stagingMap, o).content = Body(serialized)
\* A map of three paths was serialized while iterating in an order that is
\* not the sorted one.
C4_Witness ==
    /\ serialized # <<>>
    /\ Len(iterOrder) = 3
    /\ ByteLess(iterOrder[3], iterOrder[1])

\* C5: the last 20 bytes of the serialized staging file are the SHA-1 digest
\* of all the bytes before them.
C5_TrailerIsDigestOfBody ==
    serialized # <<>> => Trailer(serialized) = Sha1Bytes(Body(serialized))
\* A map of at least two entries was serialized.
C5_Witness ==
    /\ serialized # <<>>
    /\ Cardinality(DOMAIN stagingMap) >= 2
    /\ Len(Body(serialized)) > 140

\* C6, as stated: every serialized entry, the first included, has a length
\* that is a multiple of 8.
C6_EveryEntryLengthMultipleOf8 ==
    serialized # <<>> =>
        \A i \in 1..Len(ReadEntries(serialized)) :
            (ReadEntries(serialized)[i].end - ReadEntries(serialized)[i].start) % 8 = 0
\* C6, amended: every serialized entry ends at a file offset that is a
\* multiple of 8; the first entry, which starts at offset 12, has a length
\* of 4 modulo 8, and every later entry has a length that is a multiple of 8.
C6_EveryEntryEndsOnMultipleOf8 ==
    serialized # <<>> =>
        LET es == ReadEntries(serialized)
        IN /\ Len(es) = Cardinality(DOMAIN stagingMap)
           /\ \A i \in 1..Len(es) :
                 /\ es[i].end % 8 = 0
                 /\ es[i].end - es[i].start >= 62 + Len(es[i].path) + 1
                 /\ (es[i].end - es[i].start) % 8 = (IF i = 1 THEN 4 ELSE 0)
\* A map of three entries was serialized.
C6_Witness ==
    /\ serialized # <<>>
    /\ Len(ReadEntries(serialized)) = 3
    /\ ReadEntries(serialized)[1].start = 12

-----------------------------------------------------------------------------
(* repository.rs: loose objects *)

\* The path of the loose object named hash below git_dir.
LooseObjectPath(git_dir, hash) ==
    PathJoin(PathJoin(PathJoin(git_dir, S_objects), SubSeq(hash, 1, 2)), SubSeq(hash, 3, Len(hash)))
\* Repository::load_loose_object
load_loose_object(f, git_dir, hash) ==
    IF Len(hash) < 2 THEN NoObject
    ELSE IF ~PathExists(f, LooseObjectPath(git_dir, hash)) THEN NoObject
    ELSE IF ~IsFile(f, LooseObjectPath(git_dir, hash)) THEN NoObject
    ELSE from_raw_data(hash, f[SplitPath(LooseObjectPath(git_dir, hash))].content)

-----------------------------------------------------------------------------
(* The object store round trip: create_blob_object, then load_loose_object *)

InitPut ==
    /\ fs = initialize_repository(EmptyDir, S_dot, FALSE).fs
    /\ last = NoCommand
    /\ AddIdle /\ RaceIdle /\ SerializerIdle /\ RoundTripIdle /\ PackIdle /\ CallIdle

\* create_blob_object(p), into the empty store or once more with the
\* payload that was put before.
PutObject(p) ==
    /\ last.cmd = "none" \/ p = payload
    /\ LET r == create_blob_object(fs, p)
       IN /\ fs' = r.fs
          /\ putHash' = r.hash
          /\ lastWrites' = r.writes
          /\ last' = [cmd |-> "put", args |-> <<p>>,
                      outcome |-> IF r.ok THEN "ok" ELSE "fatal", error |-> ""]
    /\ payload' = p
    /\ loaded' = NoObject
    /\ UNCHANGED <<stagedBefore, writers, callArg, callResult, run, argq, stagingMap, iterOrder, serialized,
                   pack, offsets, cursor, processed, objects, walk>>

\* load_loose_object on the hash the last put returned.
LoadObject ==
    /\ last.cmd = "put"
    /\ last.outcome = "ok"
    /\ loaded' = load_loose_object(fs, S_git, putHash)
    /\ last' = [cmd |-> "load", args |-> <<putHash>>,
                outcome |-> IF load_loose_object(fs, S_git, putHash).ok THEN "ok" ELSE "fatal",
                error |-> ""]
    /\ UNCHANGED <<stagedBefore, writers, callArg, callResult,
                   fs, run, argq, lastWrites, stagingMap, iterOrder, serialized, payload, putHash,
                   pack, offsets, cursor, processed, objects, walk>>

NextPut ==
    \/ \E p \in Payloads : PutObject(p)
    \/ LoadObject

SpecPut == InitPut /\ [][NextPut]_vars

-----------------------------------------------------------------------------
(* Claims about the object store round trip (SpecPut) *)

\* C2: a put whose canonical object path exists already writes nothing,
\* leaves the store as it was and returns the same hash as before: the
\* second of two puts of the same payload returns the hash of the first and
\* leaves the object file as the first wrote it.
C2_PutIsWriteOnce ==
    [][(last'.cmd = "put" /\ PathExists(fs, LooseObjectPath(S_git, putHash')))
          => /\ lastWrites' = {}
             /\ fs' = fs
             /\ last'.outcome = "ok"
             /\ putHash' = putHash
             /\ putHash' = sha1_hash(object_content(payload'))]_vars
\* A payload was put a second time: its object file was there and the put
\* wrote nothing.
C2_Witness ==
    /\ last.cmd = "put"
    /\ last.outcome = "ok"
    /\ lastWrites = {}
    /\ IsFile(fs, LooseObjectPath(S_git, putHash))

\* C8: loading the object a put returned the hash of, and parsing it, gives
\* a blob with the payload that was put and a size equal to its length.
C8_PutLoadRoundTrip ==
    last.cmd = "load" =>
        /\ loaded.ok
        /\ loaded.object_type = "Blob"
        /\ loaded.data = payload
        /\ loaded.size = Len(payload)
        /\ loaded.hash = putHash
\* A payload that holds a NUL and a space was put into the empty store and
\* loaded.
C8_Witness ==
    /\ last.cmd = "load"
    /\ loaded.ok
    /\ Len(payload) = MaxPayloadLen
    /\ \E i, j \in 1..Len(payload) : payload[i] = NUL /\ payload[j] = Space

-----------------------------------------------------------------------------
(* Claims about add (Spec) *)

\* The loose object files of the store below .git.
ObjectFiles(f) ==
    {p \in DOMAIN f : Len(p) = 4 /\ p[1] = S_git /\ p[2] = S_objects /\ f[p].kind = "file"}
\* The paths of the entries of the staging file on disk.
StagedPaths(f) ==
    IF IsFile(f, S_git_index) THEN EntryPaths(f[SplitPath(S_git_index)].content) ELSE <<>>

\* C1: every object file objects/<xx>/<rest> is the zlib compression of an
\* envelope "blob <len>\0<payload>", with <len> the length of the payload,
\* whose SHA-1 in hexadecimal is <xx><rest>.
C1_ObjectFilesNamedByEnvelopeDigest ==
    \A p \in ObjectFiles(fs) :
        LET d == ZlibDecode(fs[p].content)
            o == parse_object_data(p[3] \o p[4], d.out)
        IN /\ d.status = "ok"
           /\ d.total_in = Len(fs[p].content)
           /\ fs[p].content = compress_zlib(d.out)
           /\ o.ok
           /\ o.object_type = "Blob"
           /\ o.size = Len(o.data)
           /\ d.out = object_content(o.data)
           /\ Len(p[3]) = 2
           /\ sha1_hash(d.out) = p[3] \o p[4]
\* Successful adds have stored two objects or more.
C1_Witness ==
    /\ last.cmd = "add"
    /\ last.outcome = "ok"
    /\ Cardinality(ObjectFiles(fs)) >= 2

\* C3: after a successful add of two or more file arguments the staging
\* file holds an entry for every argument, and the entry of a.txt comes
\* before the entry of b.txt.
C3_EveryArgumentIsStaged ==
    (/\ last.cmd = "add"
     /\ last.outcome = "ok"
     /\ Len(last.args) >= 2
     /\ \A i \in 1..Len(last.args) : last.args[i] \in WorkFiles)
    => LET ps == StagedPaths(fs)
       IN /\ \A i \in 1..Len(last.args) : \E j \in 1..Len(ps) : ps[j] = last.args[i]
          /\ \A i, j \in 1..Len(ps) : (ps[i] = S_a_txt /\ ps[j] = S_b_txt) => i < j

\* C9: after a successful "add ." the staging file has no entry for a file
\* under .git, and the store has no object for the contents of HEAD, config
\* or description.
C9_AddDotStagesNothingUnderGit ==
    (/\ last.cmd = "add"
     /\ last.outcome = "ok"
     /\ last.args = <<S_dot>>)
    => /\ \A i \in 1..Len(StagedPaths(fs)) :
             LET comps == SplitPath(StagedPaths(fs)[i])
             IN comps = <<>> \/ comps[1] # S_git
       /\ \A name \in {S_HEAD, S_config, S_description} :
             IsFile(fs, PathJoin(S_git, name))
             => ~PathExists(fs, LooseObjectPath(S_git,
                    sha1_hash(object_content(fs[<<S_git, name>>].content))))

-----------------------------------------------------------------------------
(* The init command *)

S_repo == <<114, 101, 112, 111>>
\* The directory arguments of init.
InitDirs == {S_dot, S_repo}
\* What the environment can have made before init runs: directories, and
\* files named HEAD in the places init looks for one.
EnvDirs == {S_repo, S_git, PathJoin(S_repo, S_git)}
EnvFiles == {PathJoin(GitDirOf(d, b), S_HEAD) : d \in InitDirs, b \in BOOLEAN}

InitInit ==
    /\ fs = EmptyDir
    /\ last = NoCommand
    /\ AddIdle /\ RaceIdle /\ SerializerIdle /\ RoundTripIdle /\ PackIdle /\ CallIdle

EnvCreateDir(path) ==
    /\ CanCreateDir(fs, path)
    /\ fs' = create_dir(fs, path)
    /\ last' = NoCommand
    /\ UNCHANGED <<stagedBefore, writers, callArg, callResult,
                   run, argq, lastWrites, stagingMap, iterOrder, serialized, payload, putHash,
                   loaded, pack, offsets, cursor, processed, objects, walk>>

EnvCreateFile(path) ==
    /\ ~PathExists(fs, path)
    /\ CanWrite(fs, path)
    /\ fs' = fs_write(fs, path, <<>>)
    /\ last' = NoCommand
    /\ UNCHANGED <<stagedBefore, writers, callArg, callResult,
                   run, argq, lastWrites, stagingMap, iterOrder, serialized, payload, putHash,
                   loaded, pack, offsets, cursor, processed, objects, walk>>

\* init [--bare] [<directory>]
InitCommand(directory, bare) ==
    /\ LET r == initialize_repository(fs, directory, bare)
       IN /\ fs' = r.fs
          /\ last' = [cmd |-> "init", args |-> <<directory, bare>>,
                      outcome |-> IF r.ok THEN "ok" ELSE "fatal", error |-> r.error]
    /\ UNCHANGED <<stagedBefore, writers, callArg, callResult,
                   run, argq, lastWrites, stagingMap, iterOrder, serialized, payload, putHash,
                   loaded, pack, offsets, cursor, processed, objects, walk>>

NextInit ==
    \/ \E path \in EnvDirs : EnvCreateDir(path)
    \/ \E path \in EnvFiles : EnvCreateFile(path)
    \/ \E directory \in InitDirs, bare \in BOOLEAN : InitCommand(directory, bare)

SpecInit == InitInit /\ [][NextInit]_vars

\* C10: an init whose metadata directory holds HEAD already ends with a
\* fatal error and leaves every file and directory as it was.
C10_ReinitFailsAndChangesNothing ==
    [][\A directory \in InitDirs, bare \in BOOLEAN :
          (/\ last'.cmd = "init"
           /\ last'.args = <<directory, bare>>
           /\ PathExists(fs, PathJoin(GitDirOf(directory, bare), S_HEAD)))
          => (last'.outcome = "fatal" /\ fs' = fs)]_vars
\* init has just refused a directory in which an earlier init made a
\* repository.
C10_Witness ==
    /\ last.cmd = "init"
    /\ last.outcome = "fatal"
    /\ last.error = "Reinitialization"
    /\ IsFile(fs, PathJoin(GitDirOf(last.args[1], last.args[2]), S_description))

-----------------------------------------------------------------------------
(* pack.rs: the pack reader.  Positions are 0-based cursor positions; the  *)
(* byte at position c of data is data[c + 1].                              *)

MAX_ITERATIONS == 10
\* 100 * 1024 * 1024
MAX_OBJECT_SIZE == 104857600
\* The first trial size of skip_zlib_data, and its limit 1024 * 1024.
FIRST_TEST_SIZE == 1024
MAX_TEST_SIZE == 1048576

\* match (byte >> 4) & 0x7
PackTypeOf(code) ==
    IF code = 1 THEN "Commit"
    ELSE IF code = 2 THEN "Tree"
    ELSE IF code = 3 THEN "Blob"
    ELSE IF code = 4 THEN "Tag"
    ELSE IF code = 6 THEN "OfsDelta"
    ELSE IF code = 7 THEN "RefDelta"
    ELSE "none"
\* The type_str of parse_pack_file
TypeStr(t) ==
    IF t = "Commit" THEN S_commit
    ELSE IF t = "Tree" THEN S_tree
    ELSE IF t = "Blob" THEN S_blob
    ELSE S_tag

\* The size bytes of read_object_header after the first: c is the cursor,
\* large tells that the size is above MAX_OBJECT_SIZE already (seven bits
\* at shift 25 give 2^27 or more when they are 4 or more, and any bit at
\* shift 32 to 53 gives 2^32 or more; shift 60 is followed by the error for
\* a shift above 64).
RECURSIVE ReadSizeBytes(_, _, _, _, _, _, _)
ReadSizeBytes(data, c, current_byte, size, large, shift, iterations) ==
    IF current_byte >= 128 /\ iterations < MAX_ITERATIONS
    THEN IF c >= Len(data) THEN [ok |-> FALSE, size |-> 0, cursor |-> c]
         ELSE LET b == data[c + 1]
                  bits == b % 128
                  big == large \/ (shift = 25 /\ bits >= 4) \/ (shift >= 32 /\ bits # 0)
                  size2 == IF big THEN 0 ELSE IF bits = 0 THEN size ELSE size + bits * Pow2(shift)
              IN IF shift + 7 > 64 THEN [ok |-> FALSE, size |-> 0, cursor |-> c + 1]
                 ELSE ReadSizeBytes(data, c + 1, b, size2, big, shift + 7, iterations + 1)
    ELSE IF iterations >= MAX_ITERATIONS THEN [ok |-> FALSE, size |-> 0, cursor |-> c]
    ELSE IF large \/ size > MAX_OBJECT_SIZE THEN [ok |-> FALSE, size |-> 0, cursor |-> c]
    ELSE [ok |-> TRUE, size |-> size, cursor |-> c]

read_object_header(data, c) ==
    IF c >= Len(data) THEN [ok |-> FALSE, type |-> "none", size |-> 0, cursor |-> c]
    ELSE LET byte == data[c + 1]
             obj_type == PackTypeOf((byte \div 16) % 8)
             r == ReadSizeBytes(data, c + 1, byte, byte % 16, FALSE, 4, 0)
         IN IF obj_type = "none" THEN [ok |-> FALSE, type |-> "none", size |-> 0, cursor |-> c + 1]
            ELSE [ok |-> r.ok, type |-> obj_type, size |-> r.size, cursor |-> r.cursor]

\* Where a failed read_exact leaves the cursor: std::io::Cursor moves it to
\* the end of the data in recent releases of the standard library and left
\* it in place in earlier ones; toEnd tells which.
AfterFailedRead(data, c, toEnd) == IF toEnd THEN Len(data) ELSE c

\* The bytes of read_offset_delta after the first.
RECURSIVE ReadOffsetBytes(_, _, _, _, _)
ReadOffsetBytes(data, c, byte, iterations, toEnd) ==
    IF byte >= 128 /\ iterations < MAX_ITERATIONS
    THEN IF c >= Len(data) THEN [ok |-> FALSE, cursor |-> AfterFailedRead(data, c, toEnd)]
         ELSE IF iterations + 1 >= MAX_ITERATIONS THEN [ok |-> FALSE, cursor |-> c + 1]
         ELSE ReadOffsetBytes(data, c + 1, data[c + 1], iterations + 1, toEnd)
    ELSE [ok |-> TRUE, cursor |-> c]
read_offset_delta(data, c, toEnd) ==
    IF c >= Len(data) THEN [ok |-> FALSE, cursor |-> AfterFailedRead(data, c, toEnd)]
    ELSE ReadOffsetBytes(data, c + 1, data[c + 1], 0, toEnd)

\* The header test of skip_zlib_data.
SkipHeaderValid(b0, b1) ==
    /\ b0 % 16 = 8
    /\ (b0 \div 16) * 16 <= 112
    /\ (b0 * 256 + b1) % 31 = 0

\* The trial loop of skip_zlib_data: the cursor it ends with.
RECURSIVE SkipTrials(_, _, _)
SkipTrials(data, start_pos, test_size) ==
    IF start_pos + test_size > Len(data) THEN start_pos + 1
    ELSE LET d == ZlibDecode(SubSeq(data, start_pos + 1, start_pos + test_size))
         IN IF ReadToEndOk(d)
            THEN IF d.total_in > 0 THEN start_pos + d.total_in ELSE start_pos + 1
            ELSE IF test_size * 2 > MAX_TEST_SIZE THEN start_pos + 1
            ELSE SkipTrials(data, start_pos, test_size * 2)
skip_zlib_data(data, c, toEnd) ==
    IF c >= Len(data) THEN [ok |-> FALSE, cursor |-> c]
    ELSE IF c + 2 > Len(data) THEN [ok |-> FALSE, cursor |-> AfterFailedRead(data, c, toEnd)]
    ELSE IF ~SkipHeaderValid(data[c + 1], data[c + 2]) THEN [ok |-> FALSE, cursor |-> c + 2]
    ELSE [ok |-> TRUE, cursor |-> SkipTrials(data, c, FIRST_TEST_SIZE)]

\* read_zlib_data.  The decoder's read_to_end fails on a malformed stream
\* only (never with UnexpectedEof), so the salvage branch is not taken.
read_zlib_data(data, c, expected_size) ==
    IF c >= Len(data) THEN [ok |-> FALSE, data |-> <<>>, cursor |-> c]
    ELSE LET d == ZlibDecode(SubSeq(data, c + 1, Len(data)))
         IN IF ReadToEndOk(d)
            THEN IF d.total_in > 0 THEN [ok |-> TRUE, data |-> d.out, cursor |-> c + d.total_in]
                 ELSE [ok |-> FALSE, data |-> <<>>, cursor |-> c]
            ELSE [ok |-> FALSE, data |-> <<>>, cursor |-> c + 1]

\* The pack header: signature, version and object count.
PackHeaderOk(data) ==
    /\ Len(data) >= 12
    /\ SubSeq(data, 1, 4) = S_PACK
    /\ U32Value(data, 5) \in {2, 3}
num_objects(data) == U32Value(data, 9)

\* A variant of the loop condition that tests the cursor only.
LoopContinues_to_eof(data, c, n) == c < Len(data)
\* A variant of the loop condition without the test against the declared count.
LoopContinues_undeclared(data, c, n) ==
    c < Len(data) /\ n < num_objects(data) * 2
\* while processed < num_objects && cursor.position() < data.len() && processed < max_objects
LoopContinues(data, c, n) ==
    n < num_objects(data) /\ c < Len(data) /\ n < num_objects(data) * 2

\* The hashes the reverse map offset_to_hash can hold for an offset.
HashesAt(offs, offset) == {h \in DOMAIN offs : offs[h] = offset}
\* A variant of the placeholder that leaves the offset out.
PlaceholderHash_no_offset(offset) == S_unknown_ \o ToDecimal(0)
\* format!("unknown_{}", current_offset)
PlaceholderHash(offset) == S_unknown_ \o ToDecimal(offset)

\* The body of the loop of parse_pack_file from cursor c on, the object at c
\* being given the name hash: the cursor it ends with, the objects it
\* pushes, and whether it took one of the arms that report an error and
\* seek one byte on.  h is the result of read_object_header, z of
\* read_zlib_data, o of read_offset_delta and s of skip_zlib_data; each is
\* bound once, so that it is computed once also where TLC tests whether a
\* step of the walk is enabled.
ParseObject(data, c, hash, toEnd) ==
    LET Failed(cur) == [cursor |-> cur + 1, pushed |-> <<>>, failed |-> TRUE]
        Passed(cur, objs) == [cursor |-> cur, pushed |-> objs, failed |-> FALSE]
        Emitted(h, z) ==
            LET full_data == TypeStr(h.type) \o <<Space>> \o ToDecimal(h.size) \o <<NUL>> \o z.data
            IN {IF obj.ok THEN <<obj>> ELSE <<>> : obj \in {from_decompressed_data(hash, full_data)}}
        Arm(h, z, o, s) ==
            IF ~h.ok THEN {Failed(h.cursor)}
            ELSE IF h.type \in {"Commit", "Tree", "Blob", "Tag"}
            THEN IF z.ok THEN {Passed(z.cursor, objs) : objs \in Emitted(h, z)}
                 ELSE {Failed(z.cursor)}
            ELSE IF h.type = "OfsDelta"
            THEN IF ~o.ok THEN {Failed(o.cursor)}
                 ELSE IF s.ok THEN {Passed(s.cursor, <<>>)}
                 ELSE {Failed(s.cursor)}
            ELSE IF h.cursor + 20 > Len(data) THEN {Failed(AfterFailedRead(data, h.cursor, toEnd))}
                 ELSE IF s.ok THEN {Passed(s.cursor, <<>>)}
                 ELSE {Failed(s.cursor)}
        Skipped(h, z, o) ==
            UNION {Arm(h, z, o, s) :
                      s \in {skip_zlib_data(data, IF h.type = "OfsDelta" THEN o.cursor ELSE h.cursor + 20, toEnd)}}
        Read(h) ==
            UNION {Skipped(h, z, o) : z \in {read_zlib_data(data, h.cursor, h.size)},
                                      o \in {read_offset_delta(data, h.cursor, toEnd)}}
    IN CHOOSE r \in UNION {Read(h) : h \in {read_object_header(data, c)}} : TRUE

-----------------------------------------------------------------------------
(* The pack reader on its own: parse_pack_file applied to a pack *)

\* Most records in the body of a pack under test, and the largest object
\* count its header declares.
MaxPieces == 2
MaxDeclared == 2

\* A record whose size fits the first header byte.
PackRecord(typeCode, size, body) == <<typeCode * 16 + size>> \o body
\* The pieces the body of a pack is made of.
Z_a == compress_zlib(<<97>>)
BaseHashBytes == [i \in 1..20 |-> 17]
PiecePool ==
    { PackRecord(3, 1, Z_a),                        \* a blob
      PackRecord(1, 5, Z_a),                        \* a commit of declared size 5 and 1 byte of data
      PackRecord(6, 1, <<5>> \o Z_a),               \* an offset delta
      PackRecord(7, 1, BaseHashBytes \o Z_a),       \* a reference delta
      PackRecord(7, 1, <<1, 2, 3>>),                \* a reference delta cut short
      PackRecord(3, 1, SubSeq(Z_a, 1, 4)),          \* a blob whose stream is cut short
      PackRecord(2, 1, <<120, 156, 7>>),            \* a tree whose stream is malformed
      <<0>> }                                       \* a byte that is no object type
RECURSIVE Bodies(_)
Bodies(k) == IF k = 0 THEN {<<>>} ELSE Bodies(k - 1) \cup {b \o p : b \in Bodies(k - 1), p \in PiecePool}
Packs ==
    {S_PACK \o U32BE(2) \o U32BE(n) \o b : n \in 0..MaxDeclared, b \in Bodies(MaxPieces)}
    \cup {<<>>, S_DIRC \o U32BE(2) \o U32BE(1) \o PackRecord(3, 1, Z_a),
          S_PACK \o U32BE(4) \o U32BE(1) \o PackRecord(3, 1, Z_a)}
\* The maps parse_idx_file can hand over: none, or one naming the first object.
KnownHash == EnvelopeDigest[object_content(C_hello)]
OffsetMaps == {EmptyIndex, (KnownHash :> 12)}

InitPack ==
    /\ pack \in Packs
    /\ offsets \in OffsetMaps
    /\ cursor = 0
    /\ processed = 0
    /\ objects = <<>>
    /\ walk = "start"
    /\ fs = EmptyDir
    /\ last = NoCommand
    /\ AddIdle /\ RaceIdle /\ SerializerIdle /\ RoundTripIdle /\ CallIdle

\* parse_pack_file up to its loop.
PackHeader ==
    /\ walk = "start"
    /\ IF PackHeaderOk(pack)
       THEN walk' = "loop" /\ cursor' = 12
       ELSE walk' = "error" /\ UNCHANGED cursor
    /\ UNCHANGED <<stagedBefore, writers, callArg, callResult,
                   fs, run, argq, lastWrites, last, stagingMap, iterOrder, serialized, payload,
                   putHash, loaded, pack, offsets, processed, objects>>

\* A variant of the iteration that counts only the records it got through:
\* an iteration that took an error arm leaves processed as it was.
PackObject_uncounted_failure(hash, toEnd) ==
    /\ walk = "loop"
    /\ LoopContinues(pack, cursor, processed)
    /\ IF HashesAt(offsets, cursor) = {} THEN hash = PlaceholderHash(cursor)
       ELSE hash \in HashesAt(offsets, cursor)
    /\ \E r \in {ParseObject(pack, cursor, hash, toEnd)} :
          /\ cursor' = r.cursor
          /\ objects' = objects \o r.pushed
          /\ processed' = IF r.failed THEN processed ELSE processed + 1
    /\ UNCHANGED <<stagedBefore, writers, callArg, callResult,
                   fs, run, argq, lastWrites, last, stagingMap, iterOrder, serialized, payload,
                   putHash, loaded, pack, offsets, walk>>

\* One iteration of the loop of parse_pack_file.
PackObject(hash, toEnd) ==
    /\ walk = "loop"
    /\ LoopContinues(pack, cursor, processed)
    /\ IF HashesAt(offsets, cursor) = {} THEN hash = PlaceholderHash(cursor)
       ELSE hash \in HashesAt(offsets, cursor)
    /\ \E r \in {ParseObject(pack, cursor, hash, toEnd)} :
          /\ cursor' = r.cursor
          /\ objects' = objects \o r.pushed
    /\ processed' = processed + 1
    /\ UNCHANGED <<stagedBefore, writers, callArg, callResult,
                   fs, run, argq, lastWrites, last, stagingMap, iterOrder, serialized, payload,
                   putHash, loaded, pack, offsets, walk>>

\* The loop ends and parse_pack_file returns the objects.
PackDone ==
    /\ walk = "loop"
    /\ ~LoopContinues(pack, cursor, processed)
    /\ walk' = "done"
    /\ UNCHANGED <<stagedBefore, writers, callArg, callResult,
                   fs, run, argq, lastWrites, last, stagingMap, iterOrder, serialized, payload,
                   putHash, loaded, pack, offsets, cursor, processed, objects>>

NextPack ==
    \/ PackHeader
    \/ \E hash \in DOMAIN offsets \cup {PlaceholderHash(cursor)}, toEnd \in BOOLEAN :
          PackObject(hash, toEnd)
    \/ PackDone

SpecPack == InitPack /\ [][NextPack]_vars

\* C7: for a pack that passes the header checks, the objects the reader has
\* collected, and so the objects it returns, are never more than the count
\* the pack header declares.
C7_ObjectsAtMostDeclared ==
    walk \in {"loop", "done"} => Len(objects) <= num_objects(pack)
\* The reader returned as many objects as the header declares, from a pack
\* that holds more bytes after them.
C7_Witness ==
    /\ walk = "done"
    /\ num_objects(pack) >= 1
    /\ Len(objects) = num_objects(pack)
    /\ cursor < Len(pack)

-----------------------------------------------------------------------------
(* Claims about the layout init makes (SpecInit) *)

\* sub occurs in s as a run of consecutive bytes.
Contains(s, sub) ==
    \E i \in 0..(Len(s) - Len(sub)) : SubSeq(s, i + 1, i + Len(sub)) = sub
\* "ref: refs/heads/master\n", "bare = true\n" and "bare = false\n"
T_head_text == <<114, 101, 102, 58, 32, 114, 101, 102, 115, 47, 104, 101, 97, 100, 115, 47, 109, 97, 115, 116, 101, 114, 10>>
T_bare_true == <<98, 97, 114, 101, 32, 61, 32, 116, 114, 117, 101, 10>>
T_bare_false == <<98, 97, 114, 101, 32, 61, 32, 102, 97, 108, 115, 101, 10>>
\* "refs/heads" and "refs/tags"
T_refs_heads == <<114, 101, 102, 115, 47, 104, 101, 97, 100, 115>>
T_refs_tags == <<114, 101, 102, 115, 47, 116, 97, 103, 115>>

\* C11: after a successful init the metadata root (<dir>/.git, or <dir>
\* with --bare) holds HEAD with exactly "ref: refs/heads/master\n", a
\* config whose "bare = " value is the flag, the description file and the
\* directories objects, refs/heads and refs/tags.
C11_InitMakesLayout ==
    (last.cmd = "init" /\ last.outcome = "ok") =>
        LET root == GitDirOf(last.args[1], last.args[2])
            config == fs[SplitPath(PathJoin(root, S_config))].content
        IN /\ IsDir(fs, root)
           /\ IsFile(fs, PathJoin(root, S_HEAD))
           /\ fs[SplitPath(PathJoin(root, S_HEAD))].content = T_head_text
           /\ IsFile(fs, PathJoin(root, S_config))
           /\ Contains(config, IF last.args[2] THEN T_bare_true ELSE T_bare_false)
           /\ ~Contains(config, IF last.args[2] THEN T_bare_false ELSE T_bare_true)
           /\ IsFile(fs, PathJoin(root, S_description))
           /\ fs[SplitPath(PathJoin(root, S_description))].content # <<>>
           /\ IsDir(fs, PathJoin(root, S_objects))
           /\ IsDir(fs, PathJoin(root, T_refs_heads))
           /\ IsDir(fs, PathJoin(root, T_refs_tags))
\* A bare repository was made in a directory init had to create.
C11_Witness ==
    /\ last.cmd = "init"
    /\ last.outcome = "ok"
    /\ last.args = <<S_repo, TRUE>>
    /\ IsFile(fs, PathJoin(S_repo, S_config))

-----------------------------------------------------------------------------
(* hex_to_bytes on its own (SpecHex) *)

MaxHexLen == 3
\* '0', '9', 'a', 'f', 'A', 'g', '+' and '-'
HexAlphabet == {48, 57, 97, 102, 65, 103, 43, 45}
HexInputs == UNION {[1..n -> HexAlphabet] : n \in 0..MaxHexLen}

InitHex ==
    /\ callArg \in HexInputs
    /\ callResult = NoCall
    /\ fs = EmptyDir
    /\ last = NoCommand
    /\ AddIdle /\ RaceIdle /\ SerializerIdle /\ RoundTripIdle /\ PackIdle

\* hex_to_bytes(hex)
HexToBytes ==
    /\ callResult = NoCall
    /\ \E r \in {hex_to_bytes(callArg)} :
          callResult' = [fn |-> "hex_to_bytes", ok |-> r.ok, bytes |-> r.bytes]
    /\ UNCHANGED <<stagedBefore, writers, callArg, fs, run, argq, lastWrites, last, stagingMap, iterOrder, serialized,
                   payload, putHash, loaded, pack, offsets, cursor, processed, objects, walk>>

NextHex == HexToBytes

SpecHex == InitHex /\ [][NextHex]_vars

\* A lowercase hexadecimal digit, and its value.
IsLowerHexDigit(c) == (c >= 48 /\ c <= 57) \/ (c >= 97 /\ c <= 102)
LowerHexValue(c) == IF c <= 57 THEN c - 48 ELSE c - 87

\* C12: hex_to_bytes fails on every input that is not an even-length string
\* of lowercase hexadecimal digits, and gives the decoded bytes otherwise.
C12_OnlyEvenLowercaseHexDecodes ==
    callResult.fn = "hex_to_bytes" =>
        IF Len(callArg) % 2 = 0 /\ \A i \in 1..Len(callArg) : IsLowerHexDigit(callArg[i])
        THEN /\ callResult.ok
             /\ callResult.bytes = [i \in 1..(Len(callArg) \div 2) |->
                    LowerHexValue(callArg[2 * i - 1]) * 16 + LowerHexValue(callArg[2 * i])]
        ELSE ~callResult.ok

-----------------------------------------------------------------------------
(* sha1_hash on its own (SpecSha1) *)

MaxShaLen == 70
\* "abc" and the 56-byte message of the FIPS 180 examples.
T_abc == <<97, 98, 99>>
T_abcdbcde ==
    <<97, 98, 99, 100, 98, 99, 100, 101, 99, 100, 101, 102, 100, 101, 102, 103, 101, 102, 103, 104, 102, 103, 104, 105, 103, 104, 105, 106,
      104, 105, 106, 107, 105, 106, 107, 108, 106, 107, 108, 109, 107, 108, 109, 110, 108, 109, 110, 111, 109, 110, 111, 112, 110, 111, 112, 113>>
\* The inputs: n times 'a' for n up to the bound, and the two messages.
Sha1Inputs == {[i \in 1..n |-> 97] : n \in 0..MaxShaLen} \cup {T_abc, T_abcdbcde}

InitSha1 ==
    /\ callArg \in Sha1Inputs
    /\ callResult = NoCall
    /\ fs = EmptyDir
    /\ last = NoCommand
    /\ AddIdle /\ RaceIdle /\ SerializerIdle /\ RoundTripIdle /\ PackIdle

\* sha1_hash(data)
Sha1Hash ==
    /\ callResult = NoCall
    /\ callResult' = [fn |-> "sha1_hash", hash |-> sha1_hash(callArg)]
    /\ UNCHANGED <<stagedBefore, writers, callArg, fs, run, argq, lastWrites, last, stagingMap, iterOrder, serialized,
                   payload, putHash, loaded, pack, offsets, cursor, processed, objects, walk>>

NextSha1 == Sha1Hash

SpecSha1 == InitSha1 /\ [][NextSha1]_vars

\* The SHA-1 digests, in lowercase hexadecimal, of n times 'a' for n = 0..72
\* (position n + 1), of "abc" and of the 56-byte message.
T_digest_of_as ==
    << <<100, 97, 51, 57, 97, 51, 101, 101, 53, 101, 54, 98, 52, 98, 48, 100, 51, 50, 53, 53,
         98, 102, 101, 102, 57, 53, 54, 48, 49, 56, 57, 48, 97, 102, 100, 56, 48, 55, 48, 57>>,
       <<56, 54, 102, 55, 101, 52, 51, 55, 102, 97, 97, 53, 97, 55, 102, 99, 101, 49, 53, 100,
         49, 100, 100, 99, 98, 57, 101, 97, 101, 97, 101, 97, 51, 55, 55, 54, 54, 55, 98, 56>>,
       <<101, 48, 99, 57, 48, 51, 53, 56, 57, 56, 100, 100, 53, 50, 102, 99, 54, 53, 99, 52,
         49, 52, 53, 52, 99, 101, 99, 57, 99, 52, 100, 50, 54, 49, 49, 98, 102, 98, 51, 55>>,
       <<55, 101, 50, 52, 48, 100, 101, 55, 52, 102, 98, 49, 101, 100, 48, 56, 102, 97, 48, 56,
         100, 51, 56, 48, 54, 51, 102, 54, 97, 54, 97, 57, 49, 52, 54, 50, 97, 56, 49, 53>>,
       <<55, 48, 99, 56, 56, 49, 100, 52, 97, 50, 54, 57, 56, 52, 100, 100, 99, 101, 55, 57,
         53, 102, 54, 102, 55, 49, 56, 49, 55, 99, 57, 99, 102, 52, 52, 56, 48, 101, 55, 57>>,
       <<100, 102, 53, 49, 101, 51, 55, 99, 50, 54, 57, 97, 97, 57, 52, 100, 51, 56, 102, 57,
         51, 101, 53, 51, 55, 98, 102, 54, 101, 50, 48, 50, 48, 98, 50, 49, 52, 48, 54, 99>>,
       <<102, 55, 97, 57, 101, 50, 52, 55, 55, 55, 101, 99, 50, 51, 50, 49, 50, 99, 53, 52,
         100, 55, 97, 51, 53, 48, 98, 99, 53, 98, 101, 97, 53, 52, 55, 55, 102, 100, 98, 98>>,
       <<101, 57, 51, 98, 52, 101, 51, 99, 52, 54, 52, 102, 102, 100, 53, 49, 55, 51, 50, 102,
         98, 100, 54, 100, 101, 100, 55, 49, 55, 101, 57, 101, 102, 100, 97, 50, 56, 97, 97, 100>>,
       <<98, 52, 56, 48, 99, 48, 55, 52, 100, 54, 98, 55, 53, 57, 52, 55, 99, 48, 50, 54,
         56, 49, 102, 51, 49, 99, 57, 48, 99, 54, 54, 56, 99, 52, 54, 98, 102, 54, 98, 56>>,
       <<50, 56, 56, 50, 102, 51, 56, 101, 53, 55, 53, 49, 48, 49, 98, 97, 54, 49, 53, 102,
         55, 50, 53, 97, 102, 53, 101, 53, 57, 98, 102, 50, 51, 51, 51, 97, 57, 97, 54, 56>>,
       <<51, 52, 57, 53, 102, 102, 54, 57, 100, 51, 52, 54, 55, 49, 100, 49, 101, 49, 53, 98,
         51, 51, 97, 54, 51, 99, 49, 51, 55, 57, 102, 100, 101, 100, 100, 51, 97, 51, 50, 97>>,
       <<55, 53, 53, 99, 48, 48, 49, 102, 52, 97, 101, 51, 99, 56, 56, 52, 51, 101, 53, 97,
         53, 48, 100, 100, 54, 97, 97, 50, 102, 97, 50, 51, 56, 57, 51, 100, 100, 51, 97, 100>>,
       <<51, 56, 52, 102, 99, 100, 49, 54, 48, 97, 98, 51, 98, 51, 51, 49, 55, 52, 101, 97,
         50, 55, 57, 97, 100, 50, 54, 48, 53, 50, 101, 101, 101, 49, 57, 49, 53, 48, 56, 97>>,
       <<56, 57, 55, 98, 57, 57, 54, 51, 49, 50, 57, 53, 100, 50, 48, 52, 100, 98, 49, 51,
         101, 56, 54, 51, 98, 50, 57, 54, 97, 48, 57, 101, 55, 48, 97, 98, 49, 100, 54, 53>>,
       <<49, 50, 56, 99, 52, 56, 52, 102, 102, 54, 57, 102, 99, 100, 99, 49, 102, 56, 50, 99,
         100, 51, 55, 56, 49, 53, 57, 53, 99, 97, 99, 53, 49, 56, 53, 101, 54, 56, 56, 102>>,
       <<55, 101, 49, 51, 99, 48, 48, 51, 97, 56, 50, 53, 54, 99, 100, 52, 50, 49, 48, 53,
         53, 53, 54, 51, 99, 53, 100, 97, 54, 53, 55, 49, 100, 53, 48, 55, 49, 51, 99, 57>>,
       <<51, 52, 57, 57, 99, 54, 48, 101, 101, 97, 50, 50, 55, 52, 53, 51, 99, 55, 55, 57,
         100, 101, 53, 48, 102, 99, 56, 52, 101, 50, 49, 55, 101, 57, 97, 53, 51, 97, 49, 56>>,
       <<51, 50, 49, 97, 54, 49, 56, 98, 97, 54, 56, 51, 48, 100, 101, 57, 48, 48, 55, 51,
         56, 98, 48, 56, 49, 52, 100, 48, 99, 57, 102, 50, 56, 102, 102, 50, 102, 101, 99, 101>>,
       <<48, 52, 55, 56, 48, 57, 53, 99, 56, 101, 99, 101, 48, 98, 98, 99, 49, 49, 102, 57,
         52, 54, 54, 51, 97, 99, 50, 99, 52, 102, 49, 48, 98, 50, 57, 54, 54, 54, 100, 101>>,
       <<49, 51, 51, 53, 98, 102, 97, 54, 50, 54, 55, 49, 98, 48, 48, 49, 53, 99, 54, 101,
         50, 48, 55, 54, 54, 99, 48, 55, 48, 51, 53, 56, 54, 56, 101, 100, 98, 56, 102, 52>>,
       <<51, 56, 54, 54, 54, 98, 56, 98, 97, 53, 48, 48, 102, 97, 97, 53, 99, 50, 52, 48,
         54, 102, 52, 53, 55, 53, 100, 52, 50, 97, 57, 50, 51, 55, 57, 56, 52, 52, 99, 50>>,
       <<48, 51, 53, 97, 52, 101, 101, 53, 100, 54, 48, 56, 49, 54, 56, 55, 56, 99, 97, 101,
         99, 49, 54, 49, 100, 54, 99, 98, 56, 101, 48, 48, 101, 57, 99, 99, 53, 51, 57, 98>>,
       <<56, 99, 50, 97, 52, 101, 53, 99, 56, 102, 50, 49, 48, 98, 54, 97, 97, 97, 54, 99,
         57, 53, 101, 49, 99, 56, 101, 50, 49, 51, 53, 49, 57, 53, 57, 102, 52, 53, 52, 49>>,
       <<56, 53, 101, 51, 55, 51, 55, 98, 98, 56, 97, 98, 51, 54, 101, 50, 56, 54, 54, 53,
         48, 49, 101, 53, 49, 55, 99, 52, 54, 102, 102, 102, 99, 48, 56, 53, 51, 49, 51, 101>>,
       <<98, 49, 99, 55, 54, 97, 101, 99, 55, 54, 55, 52, 56, 54, 53, 100, 53, 51, 52, 54,
         98, 51, 98, 48, 100, 49, 99, 98, 50, 99, 50, 50, 51, 99, 53, 51, 101, 55, 51, 101>>,
       <<52, 52, 102, 52, 54, 52, 55, 101, 49, 53, 52, 50, 97, 55, 57, 100, 55, 100, 54, 56,
         99, 101, 98, 55, 102, 55, 53, 100, 49, 100, 98, 102, 55, 55, 102, 100, 101, 98, 102, 99>>,
       <<100, 101, 56, 50, 56, 48, 99, 51, 97, 49, 99, 55, 100, 98, 51, 55, 55, 102, 49, 101,
         99, 55, 49, 48, 55, 99, 55, 102, 98, 54, 50, 100, 51, 55, 52, 99, 99, 48, 57, 99>>,
       <<53, 50, 97, 48, 48, 98, 56, 52, 54, 49, 53, 57, 51, 99, 101, 51, 51, 52, 48, 57,
         100, 55, 99, 53, 100, 48, 52, 49, 49, 54, 57, 57, 99, 98, 102, 57, 99, 100, 97, 51>>,
       <<48, 54, 53, 56, 55, 55, 53, 49, 99, 101, 49, 49, 97, 56, 55, 48, 51, 97, 98, 99,
         54, 52, 99, 97, 98, 53, 53, 98, 48, 98, 57, 54, 100, 56, 56, 51, 52, 49, 97, 97>>,
       <<52, 57, 56, 97, 55, 53, 102, 51, 49, 52, 97, 54, 52, 53, 54, 55, 49, 98, 99, 55,
         57, 97, 49, 49, 56, 100, 102, 51, 56, 53, 100, 48, 100, 57, 57, 52, 56, 52, 56, 52>>,
       <<99, 100, 55, 54, 50, 51, 54, 51, 99, 49, 99, 49, 49, 101, 99, 98, 52, 56, 54, 49,
         49, 53, 56, 51, 53, 50, 48, 98, 98, 97, 49, 49, 49, 102, 48, 48, 51, 52, 100, 52>>,
       <<54, 53, 99, 102, 55, 55, 49, 97, 100, 50, 99, 99, 48, 98, 49, 101, 56, 102, 56, 57,
         51, 54, 49, 101, 51, 98, 55, 98, 101, 99, 50, 51, 54, 53, 98, 51, 97, 100, 50, 52>>,
       <<54, 56, 102, 56, 52, 97, 53, 57, 97, 51, 99, 97, 50, 100, 48, 101, 53, 99, 98, 49,
         54, 52, 54, 102, 98, 98, 49, 54, 52, 100, 97, 52, 48, 57, 98, 53, 100, 56, 102, 50>>,
       <<50, 51, 54, 56, 97, 49, 97, 99, 55, 49, 99, 54, 56, 99, 52, 98, 52, 55, 98, 52,
         102, 98, 50, 56, 48, 54, 53, 48, 56, 101, 48, 101, 98, 52, 52, 55, 97, 97, 54, 52>>,
       <<56, 50, 100, 53, 51, 52, 51, 102, 52, 98, 50, 102, 48, 102, 99, 102, 54, 101, 50, 56,
         54, 55, 50, 100, 49, 102, 49, 97, 49, 48, 99, 52, 51, 52, 102, 50, 49, 51, 100, 53>>,
       <<102, 52, 100, 51, 101, 48, 53, 55, 97, 98, 97, 99, 53, 49, 48, 57, 98, 55, 101, 57,
         53, 51, 53, 55, 56, 102, 97, 57, 55, 57, 54, 56, 101, 97, 51, 52, 102, 52, 51, 97>>,
       <<54, 99, 55, 56, 51, 99, 101, 53, 99, 99, 49, 51, 101, 97, 53, 99, 101, 53, 55, 50,
         101, 100, 100, 102, 97, 98, 97, 48, 50, 102, 57, 100, 49, 98, 98, 57, 48, 57, 48, 53>>,
       <<57, 101, 53, 53, 98, 102, 54, 97, 98, 56, 102, 49, 52, 98, 51, 55, 99, 99, 54, 102,
         54, 57, 101, 98, 55, 51, 55, 52, 98, 101, 54, 99, 53, 99, 98, 100, 50, 100, 48, 55>>,
       <<49, 50, 57, 48, 99, 50, 56, 57, 49, 48, 97, 54, 99, 49, 50, 99, 57, 97, 49, 51,
         49, 102, 48, 101, 99, 98, 53, 50, 51, 49, 49, 52, 102, 50, 48, 102, 49, 52, 99, 50>>,
       <<52, 102, 53, 102, 99, 55, 53, 98, 100, 51, 99, 57, 51, 98, 99, 99, 99, 48, 57, 102,
         99, 50, 100, 101, 57, 99, 57, 53, 52, 52, 50, 52, 53, 54, 48, 53, 51, 102, 97, 102>>,
       <<97, 53, 54, 53, 53, 57, 52, 49, 56, 100, 99, 55, 57, 48, 56, 99, 101, 53, 102, 48,
         98, 50, 52, 98, 48, 53, 99, 55, 56, 101, 48, 53, 53, 99, 98, 56, 54, 51, 100, 99>>,
       <<53, 50, 99, 101, 100, 100, 54, 98, 49, 49, 48, 101, 52, 51, 51, 48, 98, 53, 49, 56,
         54, 52, 55, 56, 55, 51, 54, 97, 102, 97, 53, 50, 48, 51, 99, 52, 102, 57, 101, 97>>,
       <<51, 50, 101, 48, 54, 55, 101, 48, 52, 49, 52, 57, 51, 50, 99, 51, 101, 100, 100, 57,
         53, 102, 99, 52, 49, 55, 54, 97, 53, 52, 98, 102, 102, 49, 100, 100, 102, 101, 50, 57>>,
       <<55, 98, 100, 50, 53, 56, 102, 50, 102, 52, 99, 99, 52, 98, 48, 50, 102, 99, 97, 52,
         101, 97, 49, 53, 55, 102, 53, 53, 102, 54, 100, 56, 56, 100, 50, 54, 100, 57, 53, 52>>,
       <<100, 102, 53, 49, 97, 49, 57, 98, 50, 57, 49, 53, 56, 54, 98, 102, 52, 54, 52, 53,
         48, 97, 101, 99, 49, 100, 55, 55, 53, 102, 51, 101, 48, 50, 55, 57, 57, 98, 53, 53>>,
       <<52, 54, 52, 50, 102, 101, 54, 56, 99, 53, 55, 99, 100, 48, 49, 102, 99, 54, 56, 102,
         99, 49, 49, 98, 55, 102, 50, 50, 98, 57, 52, 48, 51, 50, 56, 97, 55, 99, 99, 52>>,
       <<48, 51, 97, 52, 100, 101, 56, 52, 99, 49, 56, 57, 97, 56, 51, 54, 101, 97, 101, 101,
         54, 52, 51, 48, 52, 49, 98, 51, 52, 97, 100, 50, 51, 56, 54, 100, 98, 55, 48, 100>>,
       <<50, 53, 56, 56, 51, 102, 55, 97, 48, 101, 55, 51, 50, 101, 57, 97, 98, 49, 48, 101,
         53, 57, 52, 101, 97, 53, 57, 52, 50, 53, 100, 102, 101, 52, 100, 57, 48, 51, 53, 57>>,
       <<51, 101, 51, 100, 54, 101, 49, 50, 98, 57, 51, 51, 49, 51, 51, 100, 101, 50, 99, 97,
         97, 50, 52, 56, 101, 97, 49, 50, 98, 100, 49, 57, 51, 97, 54, 55, 102, 50, 48, 54>>,
       <<49, 101, 54, 54, 54, 57, 51, 52, 99, 53, 97, 51, 53, 102, 53, 48, 57, 97, 97, 51,
         49, 98, 98, 100, 57, 97, 102, 56, 97, 51, 55, 97, 49, 101, 100, 49, 51, 98, 97, 54>>,
       <<54, 99, 49, 55, 55, 51, 53, 52, 49, 53, 55, 57, 56, 57, 97, 50, 99, 54, 99, 100,
         55, 98, 97, 99, 56, 48, 52, 54, 53, 98, 49, 51, 98, 101, 97, 50, 53, 56, 51, 50>>,
       <<97, 99, 97, 51, 50, 98, 53, 48, 49, 99, 50, 51, 49, 101, 102, 56, 101, 50, 100, 56,
         55, 48, 51, 101, 55, 49, 52, 49, 53, 98, 102, 98, 101, 52, 99, 99, 98, 99, 54, 52>>,
       <<101, 54, 52, 55, 57, 99, 55, 48, 98, 98, 97, 99, 54, 54, 50, 101, 52, 99, 99, 49,
         51, 52, 99, 98, 56, 98, 100, 97, 97, 100, 101, 53, 57, 102, 102, 53, 53, 98, 54, 54>>,
       <<100, 57, 98, 54, 54, 97, 48, 56, 48, 49, 52, 53, 57, 99, 56, 48, 57, 52, 51, 57,
         56, 101, 102, 56, 102, 48, 52, 55, 48, 48, 97, 56, 53, 54, 57, 99, 57, 57, 48, 54>>,
       <<98, 48, 53, 100, 55, 49, 99, 54, 52, 57, 55, 57, 99, 98, 57, 53, 102, 97, 55, 52,
         97, 51, 51, 99, 100, 98, 51, 49, 97, 52, 48, 100, 50, 53, 56, 97, 101, 48, 50, 101>>,
       <<99, 49, 99, 56, 98, 98, 100, 99, 50, 50, 55, 57, 54, 101, 50, 56, 99, 48, 101, 49,
         53, 49, 54, 51, 100, 50, 48, 56, 57, 57, 98, 54, 53, 54, 50, 49, 100, 54, 53, 97>>,
       <<99, 50, 100, 98, 51, 51, 48, 102, 54, 48, 56, 51, 56, 53, 52, 99, 57, 57, 100, 52,
         98, 53, 98, 102, 98, 54, 101, 56, 102, 50, 57, 102, 50, 48, 49, 98, 101, 54, 57, 57>>,
       <<102, 48, 56, 102, 50, 52, 57, 48, 56, 100, 54, 56, 50, 53, 53, 53, 49, 49, 49, 98,
         101, 55, 102, 102, 54, 102, 48, 48, 52, 101, 55, 56, 50, 56, 51, 100, 57, 56, 57, 97>>,
       <<53, 101, 101, 48, 102, 56, 56, 57, 53, 102, 52, 101, 49, 97, 97, 101, 54, 97, 54, 54,
         54, 49, 100, 101, 53, 99, 52, 51, 50, 101, 51, 52, 49, 56, 56, 97, 53, 97, 50, 100>>,
       <<100, 98, 99, 56, 98, 56, 102, 53, 57, 102, 102, 56, 53, 97, 50, 98, 49, 52, 52, 56,
         101, 100, 56, 55, 51, 52, 56, 52, 98, 49, 52, 98, 102, 48, 53, 48, 55, 50, 52, 54>>,
       <<49, 51, 100, 57, 53, 54, 48, 51, 51, 100, 57, 97, 102, 52, 52, 57, 98, 102, 101, 50,
         99, 52, 101, 102, 55, 56, 99, 49, 55, 99, 50, 48, 52, 54, 57, 99, 52, 98, 102, 49>>,
       <<97, 101, 97, 98, 49, 52, 49, 100, 98, 50, 56, 97, 102, 51, 51, 53, 51, 50, 56, 51,
         98, 53, 99, 99, 98, 50, 97, 51, 50, 50, 100, 102, 48, 98, 57, 98, 53, 102, 53, 54>>,
       <<54, 55, 98, 52, 98, 51, 57, 50, 51, 102, 97, 49, 55, 56, 100, 55, 56, 56, 97, 57,
         54, 49, 49, 98, 55, 54, 52, 52, 54, 99, 57, 54, 52, 51, 49, 48, 55, 49, 102, 50>>,
       <<48, 51, 102, 48, 57, 102, 53, 98, 49, 53, 56, 97, 55, 97, 56, 99, 100, 97, 100, 57,
         50, 48, 98, 100, 100, 99, 50, 57, 98, 56, 49, 99, 49, 56, 97, 53, 53, 49, 102, 53>>,
       <<48, 48, 57, 56, 98, 97, 56, 50, 52, 98, 53, 99, 49, 54, 52, 50, 55, 98, 100, 55,
         97, 49, 49, 50, 50, 97, 53, 97, 52, 52, 50, 97, 50, 53, 101, 99, 54, 52, 52, 100>>,
       <<49, 49, 54, 53, 53, 51, 50, 54, 99, 55, 48, 56, 100, 55, 48, 51, 49, 57, 98, 101,
         50, 54, 49, 48, 101, 56, 97, 53, 55, 100, 57, 97, 53, 98, 57, 53, 57, 100, 51, 98>>,
       <<97, 52, 101, 55, 55, 100, 57, 99, 48, 99, 57, 51, 52, 52, 57, 50, 49, 97, 48, 97,
         99, 57, 57, 56, 98, 52, 52, 50, 97, 100, 53, 55, 50, 97, 102, 100, 99, 53, 102, 98>>,
       <<99, 55, 48, 99, 99, 54, 50, 97, 50, 101, 99, 98, 49, 53, 102, 52, 98, 102, 49, 98,
         55, 48, 57, 48, 52, 100, 100, 54, 50, 49, 51, 55, 51, 100, 55, 57, 102, 51, 49, 49>>,
       <<100, 99, 97, 49, 99, 56, 50, 49, 98, 55, 57, 55, 48, 97, 51, 51, 97, 57, 97, 48,
         53, 50, 52, 56, 57, 50, 99, 101, 55, 101, 52, 57, 53, 56, 49, 53, 57, 49, 102, 100>>,
       <<49, 54, 53, 102, 57, 51, 50, 101, 98, 55, 102, 56, 50, 99, 50, 54, 100, 56, 49, 54,
         57, 97, 98, 102, 101, 51, 98, 54, 54, 53, 100, 57, 50, 101, 97, 56, 99, 102, 52, 97>>,
       <<101, 100, 54, 99, 54, 57, 100, 57, 101, 56, 98, 52, 51, 55, 51, 97, 102, 56, 54, 51,
         48, 51, 100, 102, 97, 97, 51, 53, 50, 56, 100, 102, 98, 99, 49, 50, 57, 57, 48, 50>>,
       <<48, 100, 102, 99, 49, 55, 99, 101, 57, 101, 97, 99, 97, 49, 53, 55, 48, 100, 101, 57,
         53, 55, 50, 49, 57, 102, 48, 99, 54, 53, 99, 48, 99, 49, 102, 49, 51, 54, 53, 52>>,
       <<50, 50, 55, 99, 49, 53, 48, 57, 53, 55, 98, 102, 51, 56, 54, 52, 57, 55, 101, 98,
         52, 102, 56, 101, 101, 97, 98, 98, 97, 102, 57, 102, 101, 53, 102, 102, 53, 98, 57, 54>> >>
T_digest_of_abc ==
    <<97, 57, 57, 57, 51, 101, 51, 54, 52, 55, 48, 54, 56, 49, 54, 97, 98, 97, 51, 101,
         50, 53, 55, 49, 55, 56, 53, 48, 99, 50, 54, 99, 57, 99, 100, 48, 100, 56, 57, 100>>
T_digest_of_abcdbcde ==
    <<56, 52, 57, 56, 51, 101, 52, 52, 49, 99, 51, 98, 100, 50, 54, 101, 98, 97, 97, 101,
         52, 97, 97, 49, 102, 57, 53, 49, 50, 57, 101, 53, 101, 53, 52, 54, 55, 48, 102, 49>>
ExpectedDigest(data) ==
    IF data = T_abc THEN T_digest_of_abc
    ELSE IF data = T_abcdbcde THEN T_digest_of_abcdbcde
    ELSE T_digest_of_as[Len(data) + 1]

\* C13: sha1_hash gives the 40 lowercase hexadecimal digits of the SHA-1 of
\* its input: the input is padded with 0x80, zeros up to a length of 56
\* modulo 64 and the bit length as 64 bits big-endian, and the digest is the
\* known one; the digest of the empty input is da39a3ee...afd80709.
C13_Sha1IsFips180 ==
    callResult.fn = "sha1_hash" =>
        LET p == Sha1Padded(callArg)
            n == Len(callArg)
        IN /\ Len(p) % 64 = 0
           /\ Len(p) - n \in 9..72
           /\ SubSeq(p, 1, n) = callArg
           /\ p[n + 1] = 128
           /\ \A i \in (n + 2)..(Len(p) - 8) : p[i] = 0
           /\ SubSeq(p, Len(p) - 7, Len(p)) = <<0, 0, 0, 0, 0, 0, (8 * n) \div 256, (8 * n) % 256>>
           /\ Len(callResult.hash) = 40
           /\ callResult.hash = ExpectedDigest(callArg)
\* The digest of an input of 56 bytes or more (two blocks) was computed,
\* and the table holds da39a3ee... for the empty input.
C13_Witness ==
    /\ callResult.fn = "sha1_hash"
    /\ Len(callArg) >= 56
    /\ SubSeq(T_digest_of_as[1], 1, 8) = <<100, 97, 51, 57, 97, 51, 101, 101>>


-----------------------------------------------------------------------------
(* Claims about the pack walk (SpecPack) *)

\* The iteration of the walk that has just run, at the record that starts
\* at cursor, can have been ParseObject with this choice of toEnd.
WalkStepWas(r) ==
    /\ walk = "loop"
    /\ processed' = processed + 1
    /\ cursor' = r.cursor
    /\ Len(objects') = Len(objects) + Len(r.pushed)

\* C14: an iteration of the pack walk that fails at its record (unknown
\* type, bad size, decompression error, truncated input) leaves the cursor
\* exactly one byte after the offset the record started at.
C14_FailureAdvancesOneByte ==
    [][\A toEnd \in BOOLEAN :
          \A r \in {ParseObject(pack, cursor, PlaceholderHash(cursor), toEnd)} :
             (WalkStepWas(r) /\ r.failed) => cursor' = cursor + 1]_vars


\* C15: every object the pack reader has emitted holds a payload as long as
\* the size its record header declares.
C15_PayloadHasDeclaredSize ==
    \A i \in 1..Len(objects) : Len(objects[i].data) = objects[i].size


\* The delta record at cursor c, if there is one: where its zlib body
\* starts, after the offset bytes of an ofs-delta or the 20 bytes of base
\* hash of a ref-delta.
DeltaBody(data, c, toEnd) ==
    LET h == read_object_header(data, c)
        o == read_offset_delta(data, h.cursor, toEnd)
    IN IF h.ok /\ h.type = "OfsDelta" /\ o.ok THEN [delta |-> TRUE, start |-> o.cursor]
       ELSE IF h.ok /\ h.type = "RefDelta" /\ h.cursor + 20 <= Len(data)
       THEN [delta |-> TRUE, start |-> h.cursor + 20]
       ELSE [delta |-> FALSE, start |-> c]

\* C16: the walk, at an ofs-delta or ref-delta record whose body is a
\* well-formed zlib stream, emits no object and leaves the cursor on the
\* first byte after the stream.
C16_DeltaIsSkippedWhole ==
    [][\A toEnd \in BOOLEAN :
          \A r \in {ParseObject(pack, cursor, PlaceholderHash(cursor), toEnd)} :
             \A b \in {DeltaBody(pack, cursor, toEnd)} :
                \A d \in {ZlibDecode(SubSeq(pack, b.start + 1, Len(pack)))} :
                   (WalkStepWas(r) /\ b.delta /\ d.status = "ok")
                   => (objects' = objects /\ cursor' = b.start + d.total_in)]_vars


-----------------------------------------------------------------------------
(* pack.rs: parse_idx_file *)

\* b"\xff\x74\x4f\x63"
IDX_V2_SIGNATURE == <<255, 116, 79, 99>>
\* hash.iter().map(|b| format!("{:02x}", b)).collect::<String>()
HashStr(hash) ==
    [i \in 1..(2 * Len(hash)) |->
        IF i % 2 = 1 THEN HexDigit(hash[(i + 1) \div 2] \div 16) ELSE HexDigit(hash[i \div 2] % 16)]

\* parse_idx_file up to the end of its first loop: whether the header is
\* accepted, the layout taken, the object count read at the last fanout
\* slot, where the hashes are looked for, and how many 20-byte reads succeed
\* (every read after the first failed one fails too).
IdxLayout(data) ==
    LET version_2 == Len(data) >= 4 /\ SubSeq(data, 1, 4) = IDX_V2_SIGNATURE
        fanout_offset == IF version_2 THEN 8 ELSE 0
        count_pos == fanout_offset + 4 * 255
        sha_pos == IF version_2 THEN fanout_offset + 4 * 256 ELSE 4 * 256
        Accepted(n) ==
            [ok |-> TRUE, version_2 |-> version_2, num_objects |-> n, sha_pos |-> sha_pos,
             read |-> IF Len(data) < sha_pos THEN 0 ELSE Min(n, (Len(data) - sha_pos) \div 20)]
        Refused == [ok |-> FALSE, version_2 |-> version_2, num_objects |-> 0, sha_pos |-> sha_pos, read |-> 0]
    IN IF Len(data) < 4 THEN Refused
       ELSE IF version_2 /\ Len(data) < 8 THEN Refused
       ELSE IF version_2 /\ SubSeq(data, 5, 8) # <<0, 0, 0, 2>> THEN Refused
       ELSE IF count_pos + 4 > Len(data) THEN Refused
       ELSE Accepted(U32Value(data, count_pos + 1))

\* The i-th key the first loop inserts.
IdxKeyAt(data, l, i) == HashStr(SubSeq(data, l.sha_pos + 20 * (i - 1) + 1, l.sha_pos + 20 * i))
\* The keys of the map after the first loop.
IdxKeys(data) ==
    LET Keys(l) == {IdxKeyAt(data, l, i) : i \in 1..l.read}
    IN Keys(IdxLayout(data))

\* parse_idx_file: order is the order in which objects.iter_mut() visits
\* the keys.  The j-th key visited gets the j-th u32 read after the hashes
\* (and after the CRC table in the version 2 layout), or keeps 0 when the
\* read fails.
parse_idx_file(data, order, toEnd) ==
    LET Offsets(l) ==
            LET after_hashes == IF l.read = l.num_objects THEN l.sha_pos + 20 * l.num_objects
                                ELSE AfterFailedRead(data, l.sha_pos + 20 * l.read, toEnd)
                offsets_pos == after_hashes + (IF l.version_2 THEN 4 * l.num_objects ELSE 0)
            IN [h \in {order[j] : j \in 1..Len(order)} |->
                   LET j == CHOOSE k \in 1..Len(order) : order[k] = h
                   IN IF offsets_pos + 4 * j <= Len(data)
                      THEN U32Value(data, offsets_pos + 4 * (j - 1) + 1) ELSE 0]
        Result(l) == IF l.ok THEN [ok |-> TRUE, objects |-> Offsets(l)]
                     ELSE [ok |-> FALSE, objects |-> EmptyIndex]
    IN Result(IdxLayout(data))

-----------------------------------------------------------------------------
(* parse_idx_file on its own (SpecIdx) *)

\* Most entries in an index file under test.
MaxIdxEntries == 2
\* Object names and pack offsets of the entries.  Every byte of a file
\* under test outside its signature is below 128, so that any four of them
\* read as a u32 stay below 2^31.
IdxHash(b) == [i \in 1..20 |-> b]
IdxHashPool == {IdxHash(17), IdxHash(90), IdxHash(123)}
IdxOffsetPool == {12, 25, 300}
\* The entry lists of well-formed index files: names ascending.
IdxEntryLists ==
    UNION {{e \in [1..n -> [hash : IdxHashPool, offset : IdxOffsetPool]] :
               \A i \in 1..(n - 1) : e[i].hash[1] < e[i + 1].hash[1]} : n \in 0..MaxIdxEntries}
\* The fanout table: slot b counts the names whose first byte is at most b.
Fanout(entries) ==
    [j \in 1..1024 |->
        U32BE(Cardinality({i \in 1..Len(entries) : entries[i].hash[1] <= (j - 1) \div 4}))[((j - 1) % 4) + 1]]
IdxNames(entries) == [j \in 1..(20 * Len(entries)) |-> entries[((j - 1) \div 20) + 1].hash[((j - 1) % 20) + 1]]
IdxCrcs(entries) == [j \in 1..(4 * Len(entries)) |-> 76]
IdxOffsets(entries) == [j \in 1..(4 * Len(entries)) |-> U32BE(entries[((j - 1) \div 4) + 1].offset)[((j - 1) % 4) + 1]]
IdxRecords(entries) ==
    [j \in 1..(24 * Len(entries)) |->
        LET e == entries[((j - 1) \div 24) + 1]
            k == ((j - 1) % 24) + 1
        IN IF k <= 4 THEN U32BE(e.offset)[k] ELSE e.hash[k - 4]]
\* The checksums of the pack and of the index that end the file.
IdxTrailer == [j \in 1..40 |-> 110]
\* The version 2 layout and the version 1 layout of an entry list.
IdxV2(entries) ==
    IDX_V2_SIGNATURE \o <<0, 0, 0, 2>> \o Fanout(entries) \o IdxNames(entries) \o IdxCrcs(entries)
    \o IdxOffsets(entries) \o IdxTrailer
IdxV1(entries) == Fanout(entries) \o IdxRecords(entries) \o IdxTrailer
\* The mapping of an entry list.
IdxMapping(entries) ==
    [h \in {HashStr(entries[i].hash) : i \in 1..Len(entries)} |->
        entries[CHOOSE i \in 1..Len(entries) : HashStr(entries[i].hash) = h].offset]
\* Files that are no index, or an index cut short.
IdxSample == [i \in 1..2 |-> [hash |-> IdxHash(17 + 73 * (i - 1)), offset |-> 12 + 13 * (i - 1)]]
IdxBroken ==
    { <<>>, <<255, 116, 79>>, IDX_V2_SIGNATURE \o <<0, 0>>,
      IDX_V2_SIGNATURE \o <<0, 0, 0, 3>> \o Fanout(IdxSample) \o IdxNames(IdxSample),
      SubSeq(IdxV2(IdxSample), 1, 1000),
      SubSeq(IdxV2(IdxSample), 1, 8 + 1024 + 30),
      SubSeq(IdxV2(IdxSample), 1, 8 + 1024 + 40 + 8 + 6),
      SubSeq(IdxV1(IdxSample), 1, 1020),
      SubSeq(IdxV1(IdxSample), 1, 1024 + 22) }
IdxFiles ==
    {IdxV2(e) : e \in IdxEntryLists} \cup {IdxV1(e) : e \in IdxEntryLists} \cup IdxBroken

InitIdx ==
    /\ callArg \in IdxFiles
    /\ callResult = NoCall
    /\ fs = EmptyDir
    /\ last = NoCommand
    /\ AddIdle /\ RaceIdle /\ SerializerIdle /\ RoundTripIdle /\ PackIdle

\* parse_idx_file(data)
ParseIdx(order, toEnd) ==
    /\ callResult = NoCall
    /\ \E r \in {parse_idx_file(callArg, order, toEnd)} :
          callResult' = [fn |-> "parse_idx_file", ok |-> r.ok, objects |-> r.objects]
    /\ UNCHANGED <<stagedBefore, writers, callArg, fs, run, argq, lastWrites, last, stagingMap, iterOrder, serialized,
                   payload, putHash, loaded, pack, offsets, cursor, processed, objects, walk>>

NextIdx == \E order \in IterationOrders(IdxKeys(callArg)), toEnd \in BOOLEAN : ParseIdx(order, toEnd)

SpecIdx == InitIdx /\ [][NextIdx]_vars

\* C17: from a well-formed index file, in the version 2 layout or in the
\* version 1 layout, parse_idx_file returns the mapping that pairs the i-th
\* name of the file with its i-th offset.
C17_IdxPairsNameWithOffset ==
    callResult.fn = "parse_idx_file" =>
        \A entries \in IdxEntryLists :
            callArg \in {IdxV2(entries), IdxV1(entries)} =>
                callResult.ok /\ callResult.objects = IdxMapping(entries)


-----------------------------------------------------------------------------
(* extract_objects, once the pack file and the index file have been read: *)
(* the index is parsed, then the pack is walked (SpecExtract)              *)

\* The packs under test: a blob and a commit; one blob; a byte that is no
\* type before a blob; a blob cut short before a blob; a reference delta
\* before a blob; a file that is no pack.
ExtractPacks ==
    { S_PACK \o U32BE(2) \o U32BE(2) \o PackRecord(3, 1, Z_a) \o PackRecord(1, 1, Z_a),
      S_PACK \o U32BE(2) \o U32BE(1) \o PackRecord(3, 1, Z_a),
      S_PACK \o U32BE(3) \o U32BE(2) \o <<0>> \o PackRecord(3, 1, Z_a),
      S_PACK \o U32BE(2) \o U32BE(2) \o PackRecord(3, 1, SubSeq(Z_a, 1, 4)) \o PackRecord(3, 1, Z_a),
      S_PACK \o U32BE(2) \o U32BE(2) \o PackRecord(7, 1, BaseHashBytes \o Z_a) \o PackRecord(3, 1, Z_a),
      S_DIRC \o U32BE(2) \o U32BE(1) \o PackRecord(3, 1, Z_a) }

InitExtract ==
    /\ pack \in ExtractPacks
    /\ callArg \in IdxFiles
    /\ callResult = NoCall
    /\ offsets = EmptyIndex
    /\ cursor = 0
    /\ processed = 0
    /\ objects = <<>>
    /\ walk = "idx"
    /\ fs = EmptyDir
    /\ last = NoCommand
    /\ AddIdle /\ RaceIdle /\ SerializerIdle /\ RoundTripIdle

\* The offsets extract_objects goes on with: those parse_idx_file returned,
\* or HashMap::new() when it failed.
OffsetsAfter(r) == IF r.ok THEN r.objects ELSE EmptyIndex

\* extract_objects up to its call of parse_pack_file.
ExtractIdx(order, toEnd) ==
    /\ walk = "idx"
    /\ \E r \in {parse_idx_file(callArg, order, toEnd)} :
          /\ callResult' = [fn |-> "parse_idx_file", ok |-> r.ok, objects |-> r.objects]
          /\ offsets' = OffsetsAfter(r)
    /\ walk' = "start"
    /\ UNCHANGED <<stagedBefore, writers, callArg, fs, run, argq, lastWrites, last, stagingMap, iterOrder, serialized,
                   payload, putHash, loaded, pack, cursor, processed, objects>>

NextExtract ==
    \/ \E order \in IterationOrders(IdxKeys(callArg)), toEnd \in BOOLEAN : ExtractIdx(order, toEnd)
    \/ PackHeader
    \/ \E hash \in DOMAIN offsets \cup {PlaceholderHash(cursor)}, toEnd \in BOOLEAN :
          PackObject(hash, toEnd)
    \/ PackDone

SpecExtract == InitExtract /\ [][NextExtract]_vars

\* C18: when parse_idx_file fails, extract_objects goes on to the pack with
\* an empty mapping; and every object the walk emits carries a hash the
\* mapping holds for the offset the record started at, or "unknown_" followed
\* by that offset in decimal when the mapping holds none.
C18_IdxFailureNotFatal ==
    [][/\ (walk = "idx" /\ ~callResult'.ok) => (offsets' = EmptyIndex /\ walk' = "start")
       /\ (walk = "loop" /\ Len(objects') > Len(objects)) =>
             LET named == {h \in DOMAIN offsets : offsets[h] = cursor}
                 hash == objects'[Len(objects')].hash
             IN IF named = {} THEN hash = S_unknown_ \o ToDecimal(cursor) ELSE hash \in named]_vars
\* The index could not be parsed, the pack was walked to its end, and its
\* first object, at offset 12, was emitted under the name "unknown_12".
C18_Witness ==
    /\ callResult.fn = "parse_idx_file"
    /\ ~callResult.ok
    /\ walk = "done"
    /\ Len(objects) >= 1
    /\ objects[1].hash = S_unknown_ \o <<49, 50>>


-----------------------------------------------------------------------------
(* The pack walk as a loop that runs to its end (SpecWalk) *)

\* The iterations the size loop of read_object_header makes for the record
\* at c - 1 whose first byte is current_byte: c is the cursor.
RECURSIVE SizeLoopCount(_, _, _, _, _)
SizeLoopCount(data, c, current_byte, shift, iterations) ==
    IF current_byte >= 128 /\ iterations < MAX_ITERATIONS
    THEN IF c >= Len(data) THEN iterations
         ELSE IF shift + 7 > 64 THEN iterations + 1
         ELSE SizeLoopCount(data, c + 1, data[c + 1], shift + 7, iterations + 1)
    ELSE iterations
SizeLoopIterations(data, c) ==
    IF c >= Len(data) \/ PackTypeOf((data[c + 1] \div 16) % 8) = "none" THEN 0
    ELSE SizeLoopCount(data, c + 1, data[c + 1], 4, 0)

\* The trial decodes the loop of skip_zlib_data makes from start_pos.
RECURSIVE SkipTrialCount(_, _, _)
SkipTrialCount(data, start_pos, test_size) ==
    IF start_pos + test_size > Len(data) THEN 0
    ELSE IF ReadToEndOk(ZlibDecode(SubSeq(data, start_pos + 1, start_pos + test_size))) THEN 1
    ELSE IF test_size * 2 > MAX_TEST_SIZE THEN 1
    ELSE 1 + SkipTrialCount(data, start_pos, test_size * 2)
SkipLoopIterations(data, c) ==
    IF c + 2 > Len(data) THEN 0
    ELSE IF ~SkipHeaderValid(data[c + 1], data[c + 2]) THEN 0
    ELSE SkipTrialCount(data, c, FIRST_TEST_SIZE)

\* Packs that make the inner loops run: sizes and offsets of several bytes,
\* and delta bodies followed by more than 1024 and more than 2048 bytes.
Padding(n) == [i \in 1..n |-> 0]
LoopBodies ==
    { <<177, 1>> \o Z_a,                                        \* a blob of declared size 17
      <<177, 128, 128, 128, 128, 128, 128, 128, 128, 128, 1>>,  \* a size of too many bytes
      <<177, 128, 128>>,                                        \* a size cut short
      <<177, 128, 128, 128, 127>> \o Z_a,                       \* a size above MAX_OBJECT_SIZE
      <<97, 133, 133, 5>> \o Z_a,                               \* an offset of three bytes
      <<97, 133, 133, 133, 133, 133, 133, 133, 133, 133, 133, 133, 5>>,  \* an offset of too many bytes
      PackRecord(7, 1, BaseHashBytes \o Z_a) \o Padding(1100),
      PackRecord(6, 1, <<5>> \o Z_a) \o PackRecord(3, 1, Z_a) \o Padding(1100),
      PackRecord(7, 1, BaseHashBytes \o <<120, 156, 7>>) \o Padding(1100),
      PackRecord(6, 1, <<5, 120, 156, 7>>) \o Padding(2100) }
LoopPacks == {S_PACK \o U32BE(2) \o U32BE(n) \o b : n \in 1..MaxDeclared, b \in LoopBodies}

\* The walk's cursor and counter do not depend on the names the index gives,
\* so the walks are run with the empty mapping.
InitWalk ==
    /\ pack \in Packs \cup LoopPacks
    /\ offsets = EmptyIndex
    /\ cursor = 0
    /\ processed = 0
    /\ objects = <<>>
    /\ walk = "start"
    /\ fs = EmptyDir
    /\ last = NoCommand
    /\ AddIdle /\ RaceIdle /\ SerializerIdle /\ RoundTripIdle /\ CallIdle

\* parse_pack_file runs on without a pause: a step that can be taken is taken.
SpecWalk == InitWalk /\ [][NextPack]_vars /\ WF_vars(NextPack)

\* C19: the pack walk comes to its end on every pack, after no more
\* iterations than the header declares; when it has ended, the processed
\* counter has reached the declared count or the cursor is at or past the
\* end of the data; and for a record at any offset the size loop of
\* read_object_header stays within MAX_ITERATIONS and the trial sizes of
\* skip_zlib_data stay within MAX_TEST_SIZE.
C19_WalkTerminates ==
    /\ <>(walk \in {"done", "error"})
    /\ [](walk = "loop" => processed <= num_objects(pack))
    /\ [](walk = "done" => (processed >= num_objects(pack) \/ cursor >= Len(pack)))
    /\ [](\A c \in 0..(Len(pack) - 1) :
             /\ SizeLoopIterations(pack, c) <= MAX_ITERATIONS
             /\ \A k \in {SkipLoopIterations(pack, c)} :
                   k >= 1 => FIRST_TEST_SIZE * Pow2(k - 1) <= MAX_TEST_SIZE)
\* The walk has ended before the declared count, at the end of a pack in
\* which the size loop ran more than once for some record and the trial loop
\* of skip_zlib_data ran for an earlier one.
C19_Witness ==
    /\ walk = "done"
    /\ processed >= 1
    /\ processed < num_objects(pack)
    /\ cursor >= Len(pack)
    /\ \E c \in 0..(Len(pack) - 1) : SizeLoopIterations(pack, c) >= 2


-----------------------------------------------------------------------------
(* repository.rs: counting over the objects of a pack *)

\* The deduplication of get_all_objects: of the objects collected, the first
\* one of every hash, in order.
RECURSIVE UniqueObjects(_, _)
UniqueObjects(collected, unique_hashes) ==
    IF collected = <<>> THEN <<>>
    ELSE IF Head(collected).hash \in unique_hashes
    THEN UniqueObjects(Tail(collected), unique_hashes)
    ELSE <<Head(collected)>> \o UniqueObjects(Tail(collected), unique_hashes \cup {Head(collected).hash})
get_all_objects(collected) == UniqueObjects(collected, {})
\* Repository::count_all_commits, over the objects add_loose_objects and
\* add_packed_objects collected.
count_all_commits(collected) ==
    LET Count(unique) == Cardinality({i \in 1..Len(unique) : unique[i].object_type = "Commit"})
    IN Count(get_all_objects(collected))

\* The hash is a placeholder "unknown_<offset>".
IsPlaceholder(hash) == StartsWith(hash, S_unknown_)
HasKnownHash(obj) == ~IsPlaceholder(obj.hash)

\* C20: an object the pack reader returns under a placeholder hash has the
\* type unknown, and the placeholder objects add nothing to the count of
\* commits of a repository whose objects are those of the pack.
C20_PlaceholderObjectsAreUnknown ==
    walk = "done" =>
        /\ \A i \in 1..Len(objects) :
              IsPlaceholder(objects[i].hash) => objects[i].object_type = "Unknown"
        /\ count_all_commits(objects) = count_all_commits(SelectSeq(objects, HasKnownHash))


-----------------------------------------------------------------------------
(* read_object_header on its own (SpecHeader) *)

\* Most size bytes after the first byte of a header under test.
MaxSizeBytes == 11
\* First bytes: every type code, with and without the continuation bit, and
\* the size bits 0, 1 and 15.
FirstBytes == {cont * 128 + code * 16 + low : cont \in {0, 1}, code \in 0..7, low \in {0, 1, 15}}
\* The size bytes that follow: n bytes, all but the last with the
\* continuation bit and the value bits more, the last with the bits final.
SizeTail(n, more, final) == [i \in 1..n |-> IF i < n THEN 128 + more ELSE final]
SizeTails ==
    {<<>>} \cup {SizeTail(n, more, final) : n \in 1..MaxSizeBytes, more \in {0, 1, 127}, final \in {0, 1, 3, 4, 127}}
\* Complete headers, and headers that end where another size byte is due.
HeaderInputs ==
    {<<b>> \o t : b \in {f \in FirstBytes : f < 128}, t \in {<<>>}}
    \cup {<<b>> \o t : b \in {f \in FirstBytes : f >= 128}, t \in SizeTails}
    \cup {<<b>> \o SubSeq(t, 1, Len(t) - 1) :
             b \in {f \in FirstBytes : f >= 128}, t \in {SizeTail(n, 1, 1) : n \in 1..MaxSizeBytes}}

InitHeader ==
    /\ callArg \in HeaderInputs
    /\ callResult = NoCall
    /\ fs = EmptyDir
    /\ last = NoCommand
    /\ AddIdle /\ RaceIdle /\ SerializerIdle /\ RoundTripIdle /\ PackIdle

\* read_object_header(cursor) with the cursor at the start of the bytes.
ReadHeader ==
    /\ callResult = NoCall
    /\ \E r \in {read_object_header(callArg, 0)} :
          callResult' = [fn |-> "read_object_header", ok |-> r.ok, type |-> r.type,
                         size |-> r.size, cursor |-> r.cursor]
    /\ UNCHANGED <<stagedBefore, writers, callArg, fs, run, argq, lastWrites, last, stagingMap, iterOrder, serialized,
                   payload, putHash, loaded, pack, offsets, cursor, processed, objects, walk>>

NextHeader == ReadHeader

SpecHeader == InitHeader /\ [][NextHeader]_vars

\* The bytes are one complete header: every byte but the last has the
\* continuation bit.
IsCompleteHeader(bytes) ==
    /\ bytes # <<>>
    /\ bytes[Len(bytes)] < 128
    /\ \A i \in 1..(Len(bytes) - 1) : bytes[i] >= 128
\* The size of a complete header is above 100 MiB: a bit at 2^27 or above is
\* set, or the lower 27 bits give more.
SizeBitsAt(bytes, k) == bytes[k + 1] % 128
SizeBelow2Pow27(bytes) ==
    (bytes[1] % 16)
    + (IF Len(bytes) >= 2 THEN SizeBitsAt(bytes, 1) * Pow2(4) ELSE 0)
    + (IF Len(bytes) >= 3 THEN SizeBitsAt(bytes, 2) * Pow2(11) ELSE 0)
    + (IF Len(bytes) >= 4 THEN SizeBitsAt(bytes, 3) * Pow2(18) ELSE 0)
    + (IF Len(bytes) >= 5 THEN (SizeBitsAt(bytes, 4) % 4) * Pow2(25) ELSE 0)
SizeHasHighBits(bytes) ==
    \/ Len(bytes) >= 5 /\ SizeBitsAt(bytes, 4) >= 4
    \/ \E k \in 5..(Len(bytes) - 1) : SizeBitsAt(bytes, k) # 0
SizeAbove100MiB(bytes) == SizeHasHighBits(bytes) \/ SizeBelow2Pow27(bytes) > 104857600

\* C22: read_object_header rejects the type codes 0 and 5; for the other
\* codes it accepts a complete header of at most 10 bytes whose size is at
\* most 100 MiB, with that type and exactly that size, and rejects a header
\* with more than 10 size bytes after the first or with a size above 100 MiB.
C22_HeaderDecodesTypeAndSize ==
    (callResult.fn = "read_object_header" /\ IsCompleteHeader(callArg)) =>
        LET code == (callArg[1] \div 16) % 8
        IN IF code \in {0, 5} THEN ~callResult.ok
           ELSE IF Len(callArg) - 1 > 10 \/ SizeAbove100MiB(callArg) THEN ~callResult.ok
           ELSE IF Len(callArg) <= 10
           THEN /\ callResult.ok
                /\ callResult.type = PackTypeOf(code)
                /\ callResult.size = SizeBelow2Pow27(callArg)
                /\ callResult.cursor = Len(callArg)
           ELSE TRUE


-----------------------------------------------------------------------------
(* skip_zlib_data on its own (SpecSkip) *)

\* First and second bytes of the data under test, and what may follow them.
SkipFirstBytes == {120, 8, 24, 104, 136, 248, 121, 112, 0}
SkipSecondBytes == {156, 1, 218, 94, 29, 25, 87, 0, 157}
SkipRests == {<<>>, <<1, 1, 0, 254, 255, 97, 0, 98, 0, 98>>, <<7>>}
SkipInputs ==
    {<<b0, b1>> \o rest : b0 \in SkipFirstBytes, b1 \in SkipSecondBytes, rest \in SkipRests}
    \cup {<<>>, <<120>>}

InitSkip ==
    /\ callArg \in SkipInputs
    /\ callResult = NoCall
    /\ fs = EmptyDir
    /\ last = NoCommand
    /\ AddIdle /\ RaceIdle /\ SerializerIdle /\ RoundTripIdle /\ PackIdle

\* skip_zlib_data(cursor) with the cursor at the start of the bytes.
SkipZlib(toEnd) ==
    /\ callResult = NoCall
    /\ \E r \in {skip_zlib_data(callArg, 0, toEnd)} :
          callResult' = [fn |-> "skip_zlib_data", ok |-> r.ok, cursor |-> r.cursor]
    /\ UNCHANGED <<stagedBefore, writers, callArg, fs, run, argq, lastWrites, last, stagingMap, iterOrder, serialized,
                   payload, putHash, loaded, pack, offsets, cursor, processed, objects, walk>>

NextSkip == \E toEnd \in BOOLEAN : SkipZlib(toEnd)

SpecSkip == InitSkip /\ [][NextSkip]_vars

\* C23: when the two bytes at the cursor fail the zlib validity checks,
\* skip_zlib_data returns an error and the cursor is where it was on entry.
C23_InvalidHeaderLeavesCursor ==
    (/\ callResult.fn = "skip_zlib_data"
     /\ Len(callArg) >= 2
     /\ ~(/\ callArg[1] % 16 = 8
          /\ (callArg[1] \div 16) * 16 <= 112
          /\ (callArg[1] * 256 + callArg[2]) % 31 = 0))
    => (~callResult.ok /\ callResult.cursor = 0)


\* What one iteration at cursor adds to each of the three tallies: objects
\* emitted, delta records skipped and failed attempts.
IterationTally(r, toEnd) ==
    Len(r.pushed)
    + (IF DeltaBody(pack, cursor, toEnd).delta /\ ~r.failed THEN 1 ELSE 0)
    + (IF r.failed THEN 1 ELSE 0)

\* C28: every iteration of the pack walk consumes one unit of the declared
\* object count, whether it emitted an object, skipped a delta or failed:
\* each iteration raises processed by one and adds at most one to the sum
\* of the three tallies, processed never exceeds the declared count, and so
\* the objects emitted never exceed the iterations run.
C28_IterationConsumesOneUnit ==
    /\ [](walk \in {"loop", "done"} =>
             /\ Len(objects) <= processed
             /\ processed <= num_objects(pack))
    /\ [][(walk = "loop" /\ walk' = "loop") =>
             /\ processed' = processed + 1
             /\ \A toEnd \in BOOLEAN :
                   \A r \in {ParseObject(pack, cursor, PlaceholderHash(cursor), toEnd)} :
                      WalkStepWas(r) => IterationTally(r, toEnd) <= 1]_vars
\* The walk of a pack that declares two objects has ended after two
\* iterations, of which one emitted an object and the other did not.
C28_Witness ==
    /\ walk = "done"
    /\ num_objects(pack) = 2
    /\ processed = 2
    /\ Len(objects) = 1


\* The argument arg of add covers the staged path p: p is the argument
\* itself, or a path below it.
CoveredBy(p, arg) == p = arg \/ StartsWith(p, arg \o <<Slash>>)

\* C25: add followed by add overwrites rather than merges.  After an add
\* that succeeded the staging file holds no entry for a path that none of
\* its arguments covers, whatever earlier invocations had staged; and every
\* add_path that succeeds leaves only entries its own argument covers.
C25_AddOverwritesStaging ==
    /\ []((last.cmd = "add" /\ last.outcome = "ok") =>
             \A i \in 1..Len(StagedPaths(fs)) :
                \E k \in 1..Len(last.args) : CoveredBy(StagedPaths(fs)[i], last.args[k]))
    /\ [][(run = "adding" /\ last'.outcome # "fatal") =>
             \A i \in 1..Len(StagedPaths(fs')) : CoveredBy(StagedPaths(fs')[i], Head(argq))]_vars
\* An add of b.txt alone has succeeded in a repository whose store holds
\* the object an earlier add made for a.txt, of other contents; the
\* staging file holds the entry of b.txt only.
C25_Witness ==
    /\ last.cmd = "add"
    /\ last.outcome = "ok"
    /\ last.args = <<S_b_txt>>
    /\ fs[SplitPath(S_a_txt)].content # fs[SplitPath(S_b_txt)].content
    /\ PathExists(fs, LooseObjectPath(S_git, sha1_hash(object_content(fs[SplitPath(S_a_txt)].content))))
    /\ StagedPaths(fs) = <<S_b_txt>>


\* The entries of the staging file on disk.
StagedEntries(f) ==
    IF IsFile(f, S_git_index) THEN ReadEntries(f[SplitPath(S_git_index)].content) ELSE <<>>
\* The object the store holds under a hash given in bytes, read the way
\* load_loose_object reads it.
StoredObject(f, hash_bytes) == load_loose_object(f, S_git, HashStr(hash_bytes))

FailedArgument ==
    CHOOSE k \in 1..Len(last.args) :
       /\ ~PathExists(fs, last.args[k])
       /\ \A j \in 1..(k - 1) : PathExists(fs, last.args[j])
\* The last command was an add that failed at an argument after its first.
AddFailedAfterFirst ==
    /\ last.cmd = "add"
    /\ last.outcome = "fatal"
    /\ last.error = "pathspec"
    /\ FailedArgument > 1

\* C29, as the specification states it: after an add that failed at an
\* argument after its first, the staging file differs from the staging
\* file before the invocation.
C29_FailedAddChangesStaging ==
    AddFailedAfterFirst => StagingFile(fs) # stagedBefore

\* C29, amended: add has no rollback.  After an add that failed at its
\* argument k > 1, the staging file is the one written for argument k - 1:
\* it exists, every entry it holds is covered by that argument, a file
\* argument has its entry, and the store holds the object of every file
\* argument before k.  The file may hold the same bytes as before.
C29_FailedAddKeepsEarlierWrites ==
    AddFailedAfterFirst =>
       /\ StagingFile(fs) # <<>>
       /\ \A i \in 1..Len(StagedPaths(fs)) :
             CoveredBy(StagedPaths(fs)[i], last.args[FailedArgument - 1])
       /\ last.args[FailedArgument - 1] \in WorkFiles
             => StagedPaths(fs) = <<last.args[FailedArgument - 1]>>
       /\ \A j \in 1..(FailedArgument - 1) :
             last.args[j] \in WorkFiles
             => load_loose_object(fs, S_git,
                    sha1_hash(object_content(fs[SplitPath(last.args[j])].content))).data
                = fs[SplitPath(last.args[j])].content
\* An add of a.txt and of a path that does not exist has failed at its
\* second argument, and the staging file is not the one it found.
C29_Witness ==
    /\ AddFailedAfterFirst
    /\ last.args = <<S_a_txt, S_nope>>
    /\ StagingFile(fs) # stagedBefore
    /\ StagedPaths(fs) = <<S_a_txt>>


-----------------------------------------------------------------------------
(* repository.rs and pack.rs: enumerating the objects of a repository *)

S_pack == <<112, 97, 99, 107>>
S_info == <<105, 110, 102, 111>>
S_dot_pack == S_dot \o S_pack
S_dot_idx == S_dot \o <<105, 100, 120>>
EndsWith(s, t) == Len(s) >= Len(t) /\ SubSeq(s, Len(s) - Len(t) + 1, Len(s)) = t

\* Paths are given by their components.  fs::read_dir(d): the entries of d.
ReadDir(f, d) == {p \in DOMAIN f : Len(p) = Len(d) + 1 /\ SubSeq(p, 1, Len(d)) = d}
ObjectsDir == <<S_git, S_objects>>
PackDir == <<S_git, S_objects, S_pack>>

\* The directories below objects/ whose files add_loose_objects goes
\* through: every directory but info and pack.
ScannedDirs(f) ==
    {d \in ReadDir(f, ObjectsDir) : f[d].kind = "dir" /\ d[3] \notin {S_info, S_pack}}
\* The files in them.
LooseCandidates(f) == {p \in UNION {ReadDir(f, d) : d \in ScannedDirs(f)} : f[p].kind = "file"}
\* The orders the two nested read_dir loops can take them in: any order in
\* which the files of one directory come together.
LooseOrders(f) ==
    {o \in IterationOrders(LooseCandidates(f)) :
        \A i, j, k \in 1..Len(o) : (i < j /\ j < k /\ o[i][3] = o[k][3]) => o[j][3] = o[i][3]}

\* if let Ok(obj) = self.load_loose_object(&hash) { objects.push(obj) },
\* for each file in turn, with hash = prefix + suffix; each object pushed is
\* given with the file it was pushed for.  The names of the model are
\* ASCII, so that hash[0..2] never cuts a character.
PushedOk(p) == p.obj.ok
LoosePushes(f, order) ==
    SelectSeq([i \in 1..Len(order) |->
                  [from |-> order[i],
                   obj |-> load_loose_object(f, S_git, order[i][3] \o order[i][4])]],
              PushedOk)
\* Repository::add_loose_objects
add_loose_objects(f, order) ==
    IF ObjectsDir \notin DOMAIN f \/ f[ObjectsDir].kind # "dir"
    THEN [ok |-> FALSE, objects |-> <<>>]
    ELSE [ok |-> TRUE, objects |-> [i \in 1..Len(LoosePushes(f, order)) |-> LoosePushes(f, order)[i].obj]]

\* path.extension() == "pack": the name ends with ".pack" and is longer.
HasPackExtension(name) == EndsWith(name, S_dot_pack) /\ Len(name) > Len(S_dot_pack)
\* PackFile::new
PackFile_new(f, pack_path) ==
    LET name == pack_path[Len(pack_path)]
        idx_name == SubSeq(name, 1, Len(name) - 5) \o S_dot_idx
        idx_path == SubSeq(pack_path, 1, Len(pack_path) - 1) \o <<idx_name>>
    IN IF ~EndsWith(name, S_dot_pack) THEN [ok |-> FALSE, path |-> pack_path, idx_path |-> <<>>]
       ELSE IF idx_path \notin DOMAIN f THEN [ok |-> FALSE, path |-> pack_path, idx_path |-> idx_path]
       ELSE [ok |-> TRUE, path |-> pack_path, idx_path |-> idx_path]

\* The loop of parse_pack_file from cursor c on, n iterations done.  Where
\* the index gives several names for one offset the reverse map keeps any
\* one of them.
RECURSIVE PackLoop(_, _, _, _, _, _)
PackLoop(data, offs, c, n, objs, toEnd) ==
    LET Step(r) == PackLoop(data, offs, r.cursor, n + 1, objs \o r.pushed, toEnd)
        Named(hash) == Step(ParseObject(data, c, hash, toEnd))
    IN IF ~LoopContinues(data, c, n) THEN objs
       ELSE IF HashesAt(offs, c) = {} THEN Named(PlaceholderHash(c))
       ELSE Named(CHOOSE h \in HashesAt(offs, c) : TRUE)
\* PackFile::parse_pack_file
parse_pack_file(data, offs, toEnd) ==
    IF ~PackHeaderOk(data) THEN [ok |-> FALSE, objects |-> <<>>]
    ELSE [ok |-> TRUE, objects |-> PackLoop(data, offs, 12, 0, <<>>, toEnd)]
\* PackFile::extract_objects; the names of the index are taken in some
\* order of the map.
extract_objects(f, pk, toEnd) ==
    LET Parsed(r) == [ok |-> TRUE, objects |-> IF r.ok THEN r.objects ELSE <<>>]
        Indexed(idx) == Parsed(parse_pack_file(f[pk.path].content, OffsetsAfter(idx), toEnd))
        Read(idx_data) ==
            Indexed(parse_idx_file(idx_data,
                                   CHOOSE o \in IterationOrders(IdxKeys(idx_data)) : TRUE, toEnd))
    IN IF f[pk.path].kind # "file" \/ f[pk.idx_path].kind # "file"
       THEN [ok |-> FALSE, objects |-> <<>>]
       ELSE Read(f[pk.idx_path].content)

\* A variant of the loop of add_packed_objects that leaves out a pack that
\* PackFile::new or extract_objects fails on.
RECURSIVE ExtendFromPacks_skipping(_, _, _, _)
ExtendFromPacks_skipping(f, entries, objs, toEnd) ==
    LET Rest(more) == ExtendFromPacks_skipping(f, Tail(entries), objs \o more, toEnd)
        Extracted(ex) == IF ~ex.ok THEN Rest(<<>>) ELSE Rest(ex.objects)
        Opened(pk) == IF ~pk.ok THEN Rest(<<>>) ELSE Extracted(extract_objects(f, pk, toEnd))
    IN IF entries = <<>> THEN [ok |-> TRUE, objects |-> objs]
       ELSE IF f[Head(entries)].kind = "file" /\ HasPackExtension(Head(entries)[Len(Head(entries))])
       THEN Opened(PackFile_new(f, Head(entries)))
       ELSE Rest(<<>>)
add_packed_objects_skipping(f, objs, order, toEnd) ==
    IF PackDir \notin DOMAIN f THEN [ok |-> TRUE, objects |-> objs]
    ELSE IF f[PackDir].kind # "dir" THEN [ok |-> FALSE, objects |-> <<>>]
    ELSE ExtendFromPacks_skipping(f, order, objs, toEnd)
\* The loop of add_packed_objects over the entries of objects/pack, in the
\* order read_dir gives them.
RECURSIVE ExtendFromPacks(_, _, _, _)
ExtendFromPacks(f, entries, objs, toEnd) ==
    LET Rest(more) == ExtendFromPacks(f, Tail(entries), objs \o more, toEnd)
        Extracted(ex) == IF ~ex.ok THEN [ok |-> FALSE, objects |-> <<>>] ELSE Rest(ex.objects)
        Opened(pk) == IF ~pk.ok THEN [ok |-> FALSE, objects |-> <<>>]
                      ELSE Extracted(extract_objects(f, pk, toEnd))
    IN IF entries = <<>> THEN [ok |-> TRUE, objects |-> objs]
       ELSE IF f[Head(entries)].kind = "file" /\ HasPackExtension(Head(entries)[Len(Head(entries))])
       THEN Opened(PackFile_new(f, Head(entries)))
       ELSE Rest(<<>>)
\* Repository::add_packed_objects
add_packed_objects(f, objs, order, toEnd) ==
    IF PackDir \notin DOMAIN f THEN [ok |-> TRUE, objects |-> objs]
    ELSE IF f[PackDir].kind # "dir" THEN [ok |-> FALSE, objects |-> <<>>]
    ELSE ExtendFromPacks(f, order, objs, toEnd)

-----------------------------------------------------------------------------
(* count_all_commits on a repository (SpecRepo) *)

\* The loose files of the repositories under test: a commit ab/cdef, a blob
\* cd/ef01, a file def in a directory abc, and a file ab in info.
S_ab == <<97, 98>>
S_cdef == <<99, 100, 101, 102>>
LooseFiles ==
    { <<ObjectsDir \o <<S_ab, S_cdef>>, compress_zlib(S_commit \o <<Space, 49, NUL, 97>>)>>,
      <<ObjectsDir \o <<<<99, 100>>, <<101, 102, 48, 49>>>>, compress_zlib(S_blob \o <<Space, 49, NUL, 97>>)>>,
      <<ObjectsDir \o <<<<97, 98, 99>>, <<100, 101, 102>>>>, <<1>>>>,
      <<ObjectsDir \o <<S_info, S_ab>>, <<1>>>> }
\* Their packs: one commit or one blob at offset 12; and the index files:
\* one that is no index, one that names the object at offset 12.
CommitPack == S_PACK \o U32BE(2) \o U32BE(1) \o PackRecord(1, 1, Z_a)
BlobPack == S_PACK \o U32BE(2) \o U32BE(1) \o PackRecord(3, 1, Z_a)
NamingIdx == IdxV2(<<[hash |-> IdxHash(17), offset |-> 12]>>)
PackWithIdx(name, packs, idxs) ==
    {{}} \cup {{<<PackDir \o <<name \o S_dot_pack>>, p>>} : p \in packs}
         \cup {{<<PackDir \o <<name \o S_dot_pack>>, p>>, <<PackDir \o <<name \o S_dot_idx>>, i>>} :
                  p \in packs, i \in idxs}
\* The file system that holds the files F, given as <<path, content>>, and
\* the directories above them.
Store(F) ==
    [q \in {<<>>, <<S_git>>, ObjectsDir} \cup UNION {Prefixes(x[1]) : x \in F} |->
        IF \E x \in F : x[1] = q THEN FileNode((CHOOSE x \in F : x[1] = q)[2], FALSE) ELSE DirNode]
RepoStores ==
    {Store(l \cup p \cup q) : l \in SUBSET LooseFiles,
                              p \in PackWithIdx(<<112>>, {CommitPack, BlobPack}, {<<>>, NamingIdx}),
                              q \in PackWithIdx(<<113>>, {CommitPack}, {<<>>})}
    \cup {Put(EmptyDir, <<S_git>>, DirNode)}

InitRepo ==
    /\ fs \in RepoStores
    /\ callArg = <<>>
    /\ callResult = NoCall
    /\ last = NoCommand
    /\ AddIdle /\ RaceIdle /\ SerializerIdle /\ RoundTripIdle /\ PackIdle

\* Repository::count_all_commits; loose are the loose objects pushed, each
\* with the file it was pushed for, collected the objects before the
\* deduplication and unique those after it.
CountAllCommits(looseOrder, packOrder, toEnd) ==
    /\ callResult = NoCall
    /\ \E l \in {add_loose_objects(fs, looseOrder)} :
       \E p \in {IF l.ok THEN add_packed_objects(fs, l.objects, packOrder, toEnd) ELSE l} :
          callResult' =
             IF p.ok
             THEN [fn |-> "count_all_commits", ok |-> TRUE, count |-> count_all_commits(p.objects),
                   loose |-> LoosePushes(fs, looseOrder), collected |-> p.objects,
                   unique |-> get_all_objects(p.objects)]
             ELSE [fn |-> "count_all_commits", ok |-> FALSE, count |-> 0,
                   loose |-> <<>>, collected |-> <<>>, unique |-> <<>>]
    /\ UNCHANGED <<stagedBefore, writers, callArg, fs, run, argq, lastWrites, last, stagingMap,
                   iterOrder, serialized, payload, putHash, loaded, pack, offsets, cursor,
                   processed, objects, walk>>

NextRepo ==
    \E looseOrder \in LooseOrders(fs), packOrder \in IterationOrders(ReadDir(fs, PackDir)),
       toEnd \in BOOLEAN :
          CountAllCommits(looseOrder, packOrder, toEnd)

SpecRepo == InitRepo /\ [][NextRepo]_vars

\* C21: the deduplication never drops one of two different packed objects
\* because both carry the same placeholder hash: every object collected
\* under a placeholder hash is among the unique objects, with its type and
\* its data.
C21_PlaceholderObjectsAreKept ==
    (callResult.fn = "count_all_commits" /\ callResult.ok) =>
       \A i \in 1..Len(callResult.collected) :
          IsPlaceholder(callResult.collected[i].hash) =>
             \E k \in 1..Len(callResult.unique) :
                /\ callResult.unique[k].object_type = callResult.collected[i].object_type
                /\ callResult.unique[k].data = callResult.collected[i].data

\* C24: a directory below objects/ is taken as a prefix directory iff its
\* name has exactly two characters and is not info or pack: every object
\* pushed was pushed for a file of such a directory, and every file of such
\* a directory that loads as an object was pushed.
C24_OnlyTwoCharacterPrefixes ==
    (callResult.fn = "count_all_commits" /\ callResult.ok) =>
       /\ \A i \in 1..Len(callResult.loose) :
             /\ Len(callResult.loose[i].from[3]) = 2
             /\ callResult.loose[i].from[3] \notin {S_info, S_pack}
       /\ \A p \in LooseCandidates(fs) :
             (Len(p[3]) = 2 /\ load_loose_object(fs, S_git, p[3] \o p[4]).ok)
             => \E i \in 1..Len(callResult.loose) : callResult.loose[i].from = p

\* The pack files of objects/pack that have no index file beside them.
PacksWithoutIdx(f) ==
    {p \in ReadDir(f, PackDir) :
        /\ f[p].kind = "file"
        /\ HasPackExtension(p[4])
        /\ PackDir \o <<SubSeq(p[4], 1, Len(p[4]) - 5) \o S_dot_idx>> \notin DOMAIN f}

\* C30: when objects/pack holds a pack file without an index file beside
\* it, count_all_commits returns an error and no count.
C30_PackWithoutIdxFailsCount ==
    (callResult.fn = "count_all_commits" /\ PacksWithoutIdx(fs) # {}) => ~callResult.ok
\* count_all_commits has failed on a repository with a readable loose
\* commit, a pack with its index and a pack without one.
C30_Witness ==
    /\ callResult.fn = "count_all_commits"
    /\ ~callResult.ok
    /\ Cardinality(PacksWithoutIdx(fs)) = 1
    /\ Cardinality(ReadDir(fs, PackDir)) = 3
    /\ load_loose_object(fs, S_git, S_ab \o S_cdef).object_type = "Commit"


-----------------------------------------------------------------------------
(* Two concurrent calls of create_blob_object on one payload (SpecRace) *)

\* Most calls of write that fs::write needs for the bytes of one file.
MaxWritePieces == 2
Writers == {1, 2}

\* What both writers compute before they touch the file system.
RaceHash == sha1_hash(object_content(payload))
RaceCompressed == compress_zlib(object_content(payload))
RaceObjectDir == S_git_objects \o <<Slash>> \o SubSeq(RaceHash, 1, 2)
RaceObjectPath == RaceObjectDir \o <<Slash>> \o SubSeq(RaceHash, 3, Len(RaceHash))

\* A variant of the open that refuses a file that exists.
OpenObject_create_new(f, s) ==
    IF PathExists(f, s) \/ ~CanWrite(f, s) THEN [ok |-> FALSE, fs |-> f]
    ELSE [ok |-> TRUE, fs |-> fs_write(f, s, <<>>)]
\* File::create inside fs::write: the file is created, or cut to no bytes.
OpenObject(f, s) ==
    IF ~CanWrite(f, s) THEN [ok |-> FALSE, fs |-> f]
    ELSE [ok |-> TRUE, fs |-> fs_write(f, s, <<>>)]
\* A write of chunk at the offset pos of the file: the bytes there are
\* replaced, and a gap between the end of the file and pos reads as zeros.
WriteAt(f, s, pos, chunk) ==
    LET old == f[SplitPath(s)].content
        new == [i \in 1..(IF Len(old) > pos + Len(chunk) THEN Len(old) ELSE pos + Len(chunk)) |->
                   IF i > pos /\ i <= pos + Len(chunk) THEN chunk[i - pos]
                   ELSE IF i <= Len(old) THEN old[i] ELSE 0]
    IN fs_write(f, s, new)
\* The lengths one call of write may take from the bytes left: all of them,
\* or one piece.
PieceLen(n) == (n + MaxWritePieces - 1) \div MaxWritePieces
WriteLens(n, pos) == {n - pos} \cup {k \in {PieceLen(n)} : pos + k < n}

\* The repositories the writers start in: a fresh one, one that has the
\* object's directory, and one that has the object.
RaceStores(content) ==
    LET base == initialize_repository(EmptyDir, S_dot, FALSE).fs
        hash == sha1_hash(object_content(content))
        dir == S_git_objects \o <<Slash>> \o SubSeq(hash, 1, 2)
    IN {base, create_dir_all(base, dir), create_blob_object(base, content).fs}

InitRace ==
    /\ payload \in Contents
    /\ fs \in RaceStores(payload)
    /\ writers = [w \in Writers |-> [pc |-> "check_dir", pos |-> 0, wrote |-> FALSE, hash |-> <<>>]]
    /\ putHash = <<>> /\ loaded = NoObject /\ lastWrites = {}
    /\ last = NoCommand
    /\ AddIdle /\ SerializerIdle /\ PackIdle /\ CallIdle

\* if !Path::new(&object_dir).exists()
WriterCheckDir(w) ==
    /\ writers[w].pc = "check_dir"
    /\ writers' = [writers EXCEPT ![w].pc = IF PathExists(fs, RaceObjectDir) THEN "check_file"
                                            ELSE "create_dir"]
    /\ UNCHANGED <<stagedBefore, callArg, callResult, fs, run, argq, lastWrites, last, stagingMap,
                   iterOrder, serialized, payload, putHash, loaded, pack, offsets, cursor,
                   processed, objects, walk>>

\* fs::create_dir_all(&object_dir): a directory that exists by now is no error.
WriterCreateDir(w) ==
    /\ writers[w].pc = "create_dir"
    /\ IF CanCreateDirAll(fs, RaceObjectDir)
       THEN /\ fs' = create_dir_all(fs, RaceObjectDir)
            /\ writers' = [writers EXCEPT ![w].pc = "check_file"]
       ELSE /\ writers' = [writers EXCEPT ![w].pc = "failed"]
            /\ UNCHANGED fs
    /\ UNCHANGED <<stagedBefore, callArg, callResult, run, argq, lastWrites, last, stagingMap,
                   iterOrder, serialized, payload, putHash, loaded, pack, offsets, cursor,
                   processed, objects, walk>>

\* if !Path::new(&object_path).exists(); when the file is there the call
\* returns the hash.
WriterCheckFile(w) ==
    /\ writers[w].pc = "check_file"
    /\ writers' = IF PathExists(fs, RaceObjectPath)
                  THEN [writers EXCEPT ![w].pc = "done", ![w].hash = RaceHash]
                  ELSE [writers EXCEPT ![w].pc = "open"]
    /\ UNCHANGED <<stagedBefore, callArg, callResult, fs, run, argq, lastWrites, last, stagingMap,
                   iterOrder, serialized, payload, putHash, loaded, pack, offsets, cursor,
                   processed, objects, walk>>

\* fs::write(&object_path, compressed), its open.
WriterOpen(w) ==
    /\ writers[w].pc = "open"
    /\ \E r \in {OpenObject(fs, RaceObjectPath)} :
          /\ fs' = r.fs
          /\ writers' = IF r.ok THEN [writers EXCEPT ![w].pc = "write", ![w].pos = 0, ![w].wrote = TRUE]
                        ELSE [writers EXCEPT ![w].pc = "failed"]
    /\ UNCHANGED <<stagedBefore, callArg, callResult, run, argq, lastWrites, last, stagingMap,
                   iterOrder, serialized, payload, putHash, loaded, pack, offsets, cursor,
                   processed, objects, walk>>

\* fs::write(&object_path, compressed), one call of write of its write_all;
\* after the last the call returns the hash.
WriterWrite(w, k) ==
    /\ writers[w].pc = "write"
    /\ k \in WriteLens(Len(RaceCompressed), writers[w].pos)
    /\ fs' = WriteAt(fs, RaceObjectPath, writers[w].pos,
                     SubSeq(RaceCompressed, writers[w].pos + 1, writers[w].pos + k))
    /\ writers' = IF writers[w].pos + k = Len(RaceCompressed)
                  THEN [writers EXCEPT ![w].pc = "done", ![w].pos = @ + k, ![w].hash = RaceHash]
                  ELSE [writers EXCEPT ![w].pos = @ + k]
    /\ UNCHANGED <<stagedBefore, callArg, callResult, run, argq, lastWrites, last, stagingMap,
                   iterOrder, serialized, payload, putHash, loaded, pack, offsets, cursor,
                   processed, objects, walk>>

NextRace ==
    \E w \in Writers :
       \/ WriterCheckDir(w)
       \/ WriterCreateDir(w)
       \/ WriterCheckFile(w)
       \/ WriterOpen(w)
       \/ \E k \in 1..Len(RaceCompressed) : WriterWrite(w, k)

SpecRace == InitRace /\ [][NextRace]_vars

\* C26: two writers that put the same payload at the same time do not
\* hinder each other, whatever the order of their steps: neither fails,
\* and once both have returned, both have returned the same hash and the
\* object file holds the compressed envelope.
C26_ConcurrentPutsAreTolerated ==
    /\ \A w \in DOMAIN writers : writers[w].pc # "failed"
    /\ (writers # <<>> /\ \A w \in DOMAIN writers : writers[w].pc = "done") =>
          /\ \A v, w \in DOMAIN writers : writers[v].hash = writers[w].hash
          /\ \A w \in DOMAIN writers : writers[w].hash = sha1_hash(object_content(payload))
          /\ IsFile(fs, LooseObjectPath(S_git, writers[1].hash))
          /\ fs[SplitPath(LooseObjectPath(S_git, writers[1].hash))].content
                = compress_zlib(object_content(payload))
\* Both writers have returned, and both have opened and written the file.
C26_Witness ==
    /\ writers # <<>>
    /\ \A w \in DOMAIN writers : writers[w].pc = "done" /\ writers[w].wrote

====
